---- MODULE Spec2Model ----
(***************************************************************************)
(* Backtesting of crash-game betting strategies: the strategy classes of   *)
(* ml_service/backtesting/strategies.py and the single-pass loop of        *)
(* BacktestEngine.run_backtest (ml_service/backtesting/engine.py), with    *)
(* the counts and financial fields of calculate_metrics (metrics.py).      *)
(*                                                                         *)
(* Numbers.  The program computes in floats.  Here multipliers, targets    *)
(* and probabilities are integers in hundredths (2.0x is 200, 0.3 is 30),  *)
(* percentages are integers in percent, and money is an integer number of  *)
(* units; a product with a fractional factor is rounded down to the unit   *)
(* (Times).  A comparison of a quotient with an integer threshold          *)
(* (loss_percent >= stop_loss_percent) is exact under that rounding.       *)
(*                                                                         *)
(* A RoundData carries id and multiplier only: bet_count, total_bet,       *)
(* total_win and created_at are read by no strategy and by no engine loop. *)
(***************************************************************************)
EXTENDS Integers, Sequences, FiniteSets, TLC

\* Largest number of rounds loaded from the database.
MaxRounds == 4

\* Largest number of rounds of each of two sequences replayed side by side.
PairRounds == 3

\* Largest total_bets reached when the methods of a strategy object are
\* called in any order.
MaxBets == 3

\* Largest number of rounds of the short runs that use the wider inputs.
MaxShort == 2

\* Largest number of rounds loaded by the engine a parameter sweep runs on.
MaxGridRounds == 2
MaxCompare == 3
MaxWalkRounds == 4
MaxSplits == 3
MaxDrawRounds == 2
MaxSims == 2
MaxSample == 2

\* Largest number of rounds of the runs of the ML-assisted strategy.
MaxHybridRounds == 2

\* Largest number of rounds of the runs of the fixed-target strategy.
MaxFixedRounds == 3

\* Largest number of rounds of the runs of the Martingale strategy.
MaxMartingaleRounds == 4

\* Largest number of rounds of the runs of the pattern strategy.
MaxPatternRounds == 4

\* Largest number of rounds of the runs of the adaptive-target strategy.
MaxAdaptiveRounds == 4

\* Largest number of rounds of the runs of the skipping strategies.
MaxSkipRounds == 5

\* Largest number of trades of the trade logs handed to calculate_metrics.
MaxTrades == 4

\* Largest number of rounds of a sample given to both loops.
MaxPassRounds == 3

\* Largest number of rounds of the runs that reach a stop-loss or
\* take-profit threshold.
MaxStopRounds == 5

\* Largest number of rounds and of iterations of the random search.
MaxOptRounds == 2

MaxIterations == 3

\* Largest number of rounds and of values of a sensitivity analysis.
MaxSensRounds == 2

MaxValues == 3

\* Strategy.__init__: default initial_bankroll.
DefaultBankroll == 1000

----------------------------------------------------------------------------
(* Arithmetic helpers *)

Max(a, b) == IF a >= b THEN a ELSE b

Min(a, b) == IF a <= b THEN a ELSE b

\* x * (c / 100) for a factor c given in hundredths (or in percent).
Times(x, c) == (x * c) \div 100

\* Optional values (Python None): the empty set, or a singleton.
None == {}

Some(x) == {x}

The(o) == CHOOSE x \in o : TRUE

\* dict.get(key, default) on a mapping given as a function.
Get(d, k, default) == IF k \in DOMAIN d THEN d[k] ELSE default

----------------------------------------------------------------------------
(* BetDecision, RoundData *)

BetDecision(should_bet, bet_amount, cashout_target, reason) ==
    [should_bet |-> should_bet, bet_amount |-> bet_amount,
     cashout_target |-> cashout_target, reason |-> reason]

\* BetDecision(False, reason=...): bet_amount and cashout_target keep the
\* dataclass defaults 0.0 and 2.0.
NoBet(reason) == BetDecision(FALSE, 0, 200, reason)

RoundData(id, multiplier) == [id |-> id, multiplier |-> multiplier]

\* What decide returns, together with the strategy object as the call left it.
Ret(d, s) == [d |-> d, s |-> s]

----------------------------------------------------------------------------
(* Strategy (base class) *)

Strategy_init(kind, params, initial_bankroll) ==
    [kind |-> kind, p |-> params,
     initial_bankroll |-> initial_bankroll,
     bankroll |-> initial_bankroll,
     history |-> <<>>,
     consecutive_losses |-> 0,
     consecutive_wins |-> 0,
     total_bets |-> 0,
     total_wins |-> 0,
     paused_rounds |-> 0]

Strategy_reset(s) ==
    [s EXCEPT !.bankroll = s.initial_bankroll,
              !.history = <<>>,
              !.consecutive_losses = 0,
              !.consecutive_wins = 0,
              !.total_bets = 0,
              !.total_wins = 0,
              !.paused_rounds = 0]

TradeRecord(round_data, decision, won, profit, bankroll) ==
    [round_id |-> round_data.id,
     multiplier |-> round_data.multiplier,
     bet_amount |-> decision.bet_amount,
     target |-> decision.cashout_target,
     won |-> won,
     profit |-> profit,
     bankroll |-> bankroll]

\* on_round_result that stores in the record the bankroll before the trade.
Strategy_on_round_result_StoresBefore(s, decision, round_data, won, profit) ==
    IF decision.should_bet
    THEN [s EXCEPT !.total_bets = @ + 1,
                   !.bankroll = @ + profit,
                   !.total_wins = IF won THEN @ + 1 ELSE @,
                   !.consecutive_wins = IF won THEN @ + 1 ELSE 0,
                   !.consecutive_losses = IF won THEN 0 ELSE @ + 1,
                   !.history = Append(@, TradeRecord(round_data, decision, won,
                                                     profit, s.bankroll))]
    ELSE s

Strategy_on_round_result_NoStreakReset(s, decision, round_data, won, profit) ==
    IF decision.should_bet
    THEN [s EXCEPT !.total_bets = @ + 1,
                   !.bankroll = @ + profit,
                   !.total_wins = IF won THEN @ + 1 ELSE @,
                   !.consecutive_wins = IF won THEN @ + 1 ELSE @,
                   !.consecutive_losses = IF won THEN @ ELSE @ + 1,
                   !.history = Append(@, TradeRecord(round_data, decision, won,
                                                     profit, s.bankroll + profit))]
    ELSE s

Strategy_on_round_result_NoCount(s, decision, round_data, won, profit) ==
    IF decision.should_bet
    THEN [s EXCEPT !.bankroll = @ + profit,
                   !.total_wins = IF won THEN @ + 1 ELSE @,
                   !.consecutive_wins = IF won THEN @ + 1 ELSE 0,
                   !.consecutive_losses = IF won THEN 0 ELSE @ + 1,
                   !.history = Append(@, TradeRecord(round_data, decision, won,
                                                     profit, s.bankroll + profit))]
    ELSE s

Strategy_on_round_result(s, decision, round_data, won, profit) ==
    IF decision.should_bet
    THEN [s EXCEPT !.total_bets = @ + 1,
                   !.bankroll = @ + profit,
                   !.total_wins = IF won THEN @ + 1 ELSE @,
                   !.consecutive_wins = IF won THEN @ + 1 ELSE 0,
                   !.consecutive_losses = IF won THEN 0 ELSE @ + 1,
                   !.history = Append(@, TradeRecord(round_data, decision, won,
                                                     profit, s.bankroll + profit))]
    ELSE s

\* (initial_bankroll - bankroll) / initial_bankroll * 100, rounded down.
LossPercent(s) == ((s.initial_bankroll - s.bankroll) * 100) \div s.initial_bankroll

\* (bankroll - initial_bankroll) / initial_bankroll * 100, rounded down.
ProfitPercent(s) == ((s.bankroll - s.initial_bankroll) * 100) \div s.initial_bankroll

----------------------------------------------------------------------------
(* FixedTargetStrategy *)

FixedTargetStrategy(target, bet_percent, min_bet, max_bet, stop_loss_percent, take_profit_percent) ==
    Strategy_init("FixedTarget",
                  [target |-> target, bet_percent |-> bet_percent,
                   min_bet |-> min_bet, max_bet |-> max_bet,
                   stop_loss_percent |-> stop_loss_percent,
                   take_profit_percent |-> take_profit_percent],
                  DefaultBankroll)

\* decide that already takes the stake out of the bankroll.
FixedTarget_decide_Deducts(s, round_history) ==
    IF LossPercent(s) >= s.p.stop_loss_percent
    THEN Ret(NoBet("Stop loss triggered"), s)
    ELSE IF ProfitPercent(s) >= s.p.take_profit_percent
    THEN Ret(NoBet("Take profit triggered"), s)
    ELSE LET bet_amount == Max(s.p.min_bet,
                               Min(s.p.max_bet, Times(s.bankroll, s.p.bet_percent)))
         IN  IF bet_amount > s.bankroll
             THEN Ret(NoBet("Insufficient bankroll"), s)
             ELSE Ret(BetDecision(TRUE, bet_amount, s.p.target, "Fixed target bet"),
                      [s EXCEPT !.bankroll = @ - bet_amount])

\* decide without the comparison of the stake with the bankroll.
FixedTarget_decide_NoGuard(s, round_history) ==
    IF LossPercent(s) >= s.p.stop_loss_percent
    THEN Ret(NoBet("Stop loss triggered"), s)
    ELSE IF ProfitPercent(s) >= s.p.take_profit_percent
    THEN Ret(NoBet("Take profit triggered"), s)
    ELSE LET bet_amount == Max(s.p.min_bet,
                               Min(s.p.max_bet, Times(s.bankroll, s.p.bet_percent)))
         IN  Ret(BetDecision(TRUE, bet_amount, s.p.target, "Fixed target bet"), s)

FixedTarget_decide(s, round_history) ==
    IF LossPercent(s) >= s.p.stop_loss_percent
    THEN Ret(NoBet("Stop loss triggered"), s)
    ELSE IF ProfitPercent(s) >= s.p.take_profit_percent
    THEN Ret(NoBet("Take profit triggered"), s)
    ELSE LET bet_amount == Max(s.p.min_bet,
                               Min(s.p.max_bet, Times(s.bankroll, s.p.bet_percent)))
         IN  IF bet_amount > s.bankroll
             THEN Ret(NoBet("Insufficient bankroll"), s)
             ELSE Ret(BetDecision(TRUE, bet_amount, s.p.target, "Fixed target bet"), s)

----------------------------------------------------------------------------
(* MartingaleStrategy *)

MartingaleStrategy(target, base_bet, multiplier, max_consecutive_losses, stop_loss_percent) ==
    Strategy_init("Martingale",
                  [target |-> target, base_bet |-> base_bet,
                   multiplier |-> multiplier,
                   max_consecutive_losses |-> max_consecutive_losses,
                   stop_loss_percent |-> stop_loss_percent],
                  DefaultBankroll)
    @@ [current_bet |-> base_bet]

Martingale_reset_BaseOnly(s) == Strategy_reset(s)

Martingale_reset(s) == [Strategy_reset(s) EXCEPT !.current_bet = s.p.base_bet]

\* decide without the return to base_bet after max_consecutive_losses.
Martingale_decide_NoStreakCap(s, round_history) ==
    IF LossPercent(s) >= s.p.stop_loss_percent
    THEN Ret(NoBet("Stop loss triggered"), s)
    ELSE LET s2 == IF s.current_bet > s.bankroll
                   THEN [s EXCEPT !.current_bet = s.p.base_bet]
                   ELSE s
         IN  IF s2.current_bet > s2.bankroll
             THEN Ret(NoBet("Insufficient bankroll"), s2)
             ELSE Ret(BetDecision(TRUE, s2.current_bet, s.p.target, "Martingale bet"), s2)

Martingale_decide(s, round_history) ==
    IF LossPercent(s) >= s.p.stop_loss_percent
    THEN Ret(NoBet("Stop loss triggered"), s)
    ELSE LET s1 == IF s.consecutive_losses >= s.p.max_consecutive_losses
                   THEN [s EXCEPT !.current_bet = s.p.base_bet,
                                  !.consecutive_losses = 0]
                   ELSE s
             s2 == IF s1.current_bet > s1.bankroll
                   THEN [s1 EXCEPT !.current_bet = s.p.base_bet]
                   ELSE s1
         IN  IF s1.current_bet > s1.bankroll /\ s2.current_bet > s2.bankroll
             THEN Ret(NoBet("Insufficient bankroll"), s2)
             ELSE Ret(BetDecision(TRUE, s2.current_bet, s.p.target, "Martingale bet"), s2)

Martingale_on_round_result(s, decision, round_data, won, profit) ==
    LET s1 == Strategy_on_round_result(s, decision, round_data, won, profit)
    IN  IF decision.should_bet
        THEN IF won
             THEN [s1 EXCEPT !.current_bet = s.p.base_bet]
             ELSE [s1 EXCEPT !.current_bet = Times(@, s.p.multiplier)]
        ELSE s1

----------------------------------------------------------------------------
(* AntiMartingaleStrategy *)

AntiMartingaleStrategy(target, base_bet, multiplier, max_consecutive_wins, stop_loss_percent, take_profit_percent) ==
    Strategy_init("AntiMartingale",
                  [target |-> target, base_bet |-> base_bet,
                   multiplier |-> multiplier,
                   max_consecutive_wins |-> max_consecutive_wins,
                   stop_loss_percent |-> stop_loss_percent,
                   take_profit_percent |-> take_profit_percent],
                  DefaultBankroll)
    @@ [current_bet |-> base_bet]

AntiMartingale_reset(s) == [Strategy_reset(s) EXCEPT !.current_bet = s.p.base_bet]

AntiMartingale_decide(s, round_history) ==
    IF LossPercent(s) >= s.p.stop_loss_percent
    THEN Ret(NoBet("Stop loss triggered"), s)
    ELSE IF ProfitPercent(s) >= s.p.take_profit_percent
    THEN Ret(NoBet("Take profit triggered"), s)
    ELSE LET s1 == IF s.consecutive_wins >= s.p.max_consecutive_wins
                   THEN [s EXCEPT !.current_bet = s.p.base_bet,
                                  !.consecutive_wins = 0]
                   ELSE s
             s2 == IF s1.current_bet > s1.bankroll
                   THEN [s1 EXCEPT !.current_bet = s.p.base_bet]
                   ELSE s1
         IN  IF s1.current_bet > s1.bankroll /\ s2.current_bet > s2.bankroll
             THEN Ret(NoBet("Insufficient bankroll"), s2)
             ELSE Ret(BetDecision(TRUE, s2.current_bet, s.p.target,
                                  "Anti-Martingale bet"), s2)

AntiMartingale_on_round_result(s, decision, round_data, won, profit) ==
    LET s1 == Strategy_on_round_result(s, decision, round_data, won, profit)
    IN  IF decision.should_bet
        THEN IF won
             THEN [s1 EXCEPT !.current_bet = Times(@, s.p.multiplier)]
             ELSE [s1 EXCEPT !.current_bet = s.p.base_bet]
        ELSE s1

----------------------------------------------------------------------------
(* PatternBasedStrategy *)

PatternBasedStrategy(bet_percent, min_streak_to_bet, streak_threshold, target_after_streak, wait_after_high, high_threshold, stop_loss_percent) ==
    Strategy_init("PatternBased",
                  [bet_percent |-> bet_percent,
                   min_streak_to_bet |-> min_streak_to_bet,
                   streak_threshold |-> streak_threshold,
                   target_after_streak |-> target_after_streak,
                   wait_after_high |-> wait_after_high,
                   high_threshold |-> high_threshold,
                   stop_loss_percent |-> stop_loss_percent],
                  DefaultBankroll)
    @@ [wait_counter |-> 0]

PatternBased_reset(s) == [Strategy_reset(s) EXCEPT !.wait_counter = 0]

\* _count_streak: the number of consecutive rounds below the threshold,
\* counted from the newest round backwards.
RECURSIVE CountStreak(_, _)
CountStreak(rounds, threshold) ==
    IF rounds = <<>> THEN 0
    ELSE IF rounds[Len(rounds)].multiplier < threshold
    THEN 1 + CountStreak(SubSeq(rounds, 1, Len(rounds) - 1), threshold)
    ELSE 0

\* round_history[-1] on an empty history: IndexError.
PatternBased_decide_raises(s, round_history) ==
    /\ LossPercent(s) < s.p.stop_loss_percent
    /\ Len(round_history) >= s.p.min_streak_to_bet
    /\ s.wait_counter = 0
    /\ round_history = <<>>

\* decide without the cooldown after a high round.
PatternBased_decide_NoCooldown(s, round_history) ==
    IF LossPercent(s) >= s.p.stop_loss_percent
    THEN Ret(NoBet("Stop loss triggered"), s)
    ELSE IF Len(round_history) < s.p.min_streak_to_bet
    THEN Ret(NoBet("Not enough history"), s)
    ELSE IF round_history[Len(round_history)].multiplier >= s.p.high_threshold
    THEN Ret(NoBet("Just had high multiplier, waiting"),
             [s EXCEPT !.wait_counter = s.p.wait_after_high])
    ELSE LET streak == CountStreak(round_history, s.p.streak_threshold)
         IN  IF streak >= s.p.min_streak_to_bet
             THEN Ret(BetDecision(TRUE, Times(s.bankroll, s.p.bet_percent),
                                  s.p.target_after_streak,
                                  "Streak of low rounds detected"), s)
             ELSE Ret(NoBet("Streak too short"), s)

PatternBased_decide(s, round_history) ==
    IF LossPercent(s) >= s.p.stop_loss_percent
    THEN Ret(NoBet("Stop loss triggered"), s)
    ELSE IF Len(round_history) < s.p.min_streak_to_bet
    THEN Ret(NoBet("Not enough history"), s)
    ELSE IF s.wait_counter > 0
    THEN Ret(NoBet("Waiting after high"), [s EXCEPT !.wait_counter = @ - 1])
    ELSE IF round_history[Len(round_history)].multiplier >= s.p.high_threshold
    THEN Ret(NoBet("Just had high multiplier, waiting"),
             [s EXCEPT !.wait_counter = s.p.wait_after_high])
    ELSE LET streak == CountStreak(round_history, s.p.streak_threshold)
         IN  IF streak >= s.p.min_streak_to_bet
             THEN Ret(BetDecision(TRUE, Times(s.bankroll, s.p.bet_percent),
                                  s.p.target_after_streak,
                                  "Streak of low rounds detected"), s)
             ELSE Ret(NoBet("Streak too short"), s)

----------------------------------------------------------------------------
(* AdaptiveTargetStrategy *)

AdaptiveTargetStrategy(start_target, min_target, target_decrement, bet_percent, reset_after_wins, stop_loss_percent) ==
    Strategy_init("AdaptiveTarget",
                  [start_target |-> start_target, min_target |-> min_target,
                   target_decrement |-> target_decrement,
                   bet_percent |-> bet_percent,
                   reset_after_wins |-> reset_after_wins,
                   stop_loss_percent |-> stop_loss_percent],
                  DefaultBankroll)
    @@ [current_target |-> start_target]

AdaptiveTarget_reset(s) ==
    [Strategy_reset(s) EXCEPT !.current_target = s.p.start_target]

AdaptiveTarget_decide(s, round_history) ==
    IF LossPercent(s) >= s.p.stop_loss_percent
    THEN Ret(NoBet("Stop loss triggered"), s)
    ELSE LET bet_amount == Times(s.bankroll, s.p.bet_percent)
         IN  IF bet_amount > s.bankroll
             THEN Ret(NoBet("Insufficient bankroll"), s)
             ELSE Ret(BetDecision(TRUE, bet_amount, s.current_target,
                                  "Adaptive target"), s)

\* on_round_result that lowers the target without the floor of min_target.
AdaptiveTarget_on_round_result_NoFloor(s, decision, round_data, won, profit) ==
    LET s1 == Strategy_on_round_result(s, decision, round_data, won, profit)
    IN  IF decision.should_bet
        THEN IF won
             THEN IF s1.consecutive_wins >= s.p.reset_after_wins
                  THEN [s1 EXCEPT !.current_target = s.p.start_target]
                  ELSE s1
             ELSE [s1 EXCEPT !.current_target = @ - s.p.target_decrement]
        ELSE s1

AdaptiveTarget_on_round_result(s, decision, round_data, won, profit) ==
    LET s1 == Strategy_on_round_result(s, decision, round_data, won, profit)
    IN  IF decision.should_bet
        THEN IF won
             THEN IF s1.consecutive_wins >= s.p.reset_after_wins
                  THEN [s1 EXCEPT !.current_target = s.p.start_target]
                  ELSE s1
             ELSE [s1 EXCEPT !.current_target =
                                 Max(s.p.min_target, @ - s.p.target_decrement)]
        ELSE s1

----------------------------------------------------------------------------
(* HybridMLStrategy *)

\* ml_predictions maps a round id to a mapping from probability names to
\* probabilities (in hundredths).
HybridMLStrategy(bet_percent, min_confidence, early_crash_max_prob, use_adaptive_target, base_target, stop_loss_percent, ml_predictions) ==
    Strategy_init("HybridML",
                  [bet_percent |-> bet_percent,
                   min_confidence |-> min_confidence,
                   early_crash_max_prob |-> early_crash_max_prob,
                   use_adaptive_target |-> use_adaptive_target,
                   base_target |-> base_target,
                   stop_loss_percent |-> stop_loss_percent,
                   ml_predictions |-> ml_predictions],
                  DefaultBankroll)

\* The tiers tested from the lowest to the highest, with >= at the cutoff.
HybridML_get_target_from_predictions_LowestFirst(s, preds) ==
    IF ~s.p.use_adaptive_target THEN s.p.base_target
    ELSE IF Get(preds, "prob_gt_2x", 0) >= 50 THEN 200
    ELSE IF Get(preds, "prob_gt_3x", 0) >= 40 THEN 300
    ELSE IF Get(preds, "prob_gt_5x", 0) >= 35 THEN 500
    ELSE IF Get(preds, "prob_gt_10x", 0) >= 30 THEN 1000
    ELSE s.p.base_target

HybridML_get_target_from_predictions(s, preds) ==
    IF ~s.p.use_adaptive_target THEN s.p.base_target
    ELSE IF Get(preds, "prob_gt_10x", 0) > 30 THEN 1000
    ELSE IF Get(preds, "prob_gt_5x", 0) > 35 THEN 500
    ELSE IF Get(preds, "prob_gt_3x", 0) > 40 THEN 300
    ELSE IF Get(preds, "prob_gt_2x", 0) > 50 THEN 200
    ELSE s.p.base_target

\* decide without the early-crash test.
HybridML_decide_NoCrashTest(s, round_history) ==
    IF LossPercent(s) >= s.p.stop_loss_percent
    THEN Ret(NoBet("Stop loss triggered"), s)
    ELSE IF round_history = <<>>
    THEN Ret(NoBet("No history"), s)
    ELSE LET last_round_id == round_history[Len(round_history)].id
             preds == Get(s.p.ml_predictions, last_round_id, <<>>)
             prob_2x == Get(preds, "prob_gt_2x", 0)
             bet_amount == Times(s.bankroll, s.p.bet_percent)
         IN  IF DOMAIN preds = {}
             THEN Ret(NoBet("No ML prediction available"), s)
             ELSE IF prob_2x < s.p.min_confidence
             THEN Ret(NoBet("Low confidence"), s)
             ELSE IF bet_amount > s.bankroll
             THEN Ret(NoBet("Insufficient bankroll"), s)
             ELSE Ret(BetDecision(TRUE, bet_amount,
                                  HybridML_get_target_from_predictions(s, preds),
                                  "ML suggests target"), s)

HybridML_decide(s, round_history) ==
    IF LossPercent(s) >= s.p.stop_loss_percent
    THEN Ret(NoBet("Stop loss triggered"), s)
    ELSE IF round_history = <<>>
    THEN Ret(NoBet("No history"), s)
    ELSE LET last_round_id == round_history[Len(round_history)].id
             preds == Get(s.p.ml_predictions, last_round_id, <<>>)
             prob_2x == Get(preds, "prob_gt_2x", 0)
             bet_amount == Times(s.bankroll, s.p.bet_percent)
         IN  IF DOMAIN preds = {}
             THEN Ret(NoBet("No ML prediction available"), s)
             ELSE IF Get(preds, "prob_early_crash", 0) > s.p.early_crash_max_prob
             THEN Ret(NoBet("High early crash probability"), s)
             ELSE IF prob_2x < s.p.min_confidence
             THEN Ret(NoBet("Low confidence"), s)
             ELSE IF bet_amount > s.bankroll
             THEN Ret(NoBet("Insufficient bankroll"), s)
             ELSE Ret(BetDecision(TRUE, bet_amount,
                                  HybridML_get_target_from_predictions(s, preds),
                                  "ML suggests target"), s)

----------------------------------------------------------------------------
(* SafetyFirstStrategy *)

\* safety_bet_ratio is given in percent (0.7 is 70).
SafetyFirstStrategy(safety_target, profit_target, safety_bet_ratio, total_bet_percent, stop_loss_percent, take_profit_percent) ==
    Strategy_init("SafetyFirst",
                  [safety_target |-> safety_target,
                   profit_target |-> profit_target,
                   safety_bet_ratio |-> safety_bet_ratio,
                   total_bet_percent |-> total_bet_percent,
                   stop_loss_percent |-> stop_loss_percent,
                   take_profit_percent |-> take_profit_percent],
                  DefaultBankroll)

SafetyFirst_decide(s, round_history) ==
    IF LossPercent(s) >= s.p.stop_loss_percent
    THEN Ret(NoBet("Stop loss triggered"), s)
    ELSE IF ProfitPercent(s) >= s.p.take_profit_percent
    THEN Ret(NoBet("Take profit triggered"), s)
    ELSE LET total_bet == Times(s.bankroll, s.p.total_bet_percent)
         IN  IF total_bet > s.bankroll
             THEN Ret(NoBet("Insufficient bankroll"), s)
             ELSE Ret(BetDecision(TRUE, total_bet, s.p.profit_target,
                                  "Safety first bet"), s)

SafetyFirst_simulate_round(s, bet_amount, multiplier) ==
    LET safety_bet == Times(bet_amount, s.p.safety_bet_ratio)
        profit_bet == Times(bet_amount, 100 - s.p.safety_bet_ratio)
        safety_leg == IF multiplier >= s.p.safety_target
                      THEN Times(safety_bet, s.p.safety_target - 100)
                      ELSE 0 - safety_bet
        profit_leg == IF multiplier >= s.p.profit_target
                      THEN Times(profit_bet, s.p.profit_target - 100)
                      ELSE 0 - profit_bet
    IN  safety_leg + profit_leg

----------------------------------------------------------------------------
(* SkipLowStrategy *)

SkipLowStrategy(target, bet_percent, skip_after_below, skip_rounds, stop_loss_percent) ==
    Strategy_init("SkipLow",
                  [target |-> target, bet_percent |-> bet_percent,
                   skip_after_below |-> skip_after_below,
                   skip_rounds |-> skip_rounds,
                   stop_loss_percent |-> stop_loss_percent],
                  DefaultBankroll)
    @@ [rounds_to_skip |-> 0]

SkipLow_reset(s) == [Strategy_reset(s) EXCEPT !.rounds_to_skip = 0]

SkipLow_decide(s, round_history) ==
    IF LossPercent(s) >= s.p.stop_loss_percent
    THEN Ret(NoBet("Stop loss triggered"), s)
    ELSE IF s.rounds_to_skip > 0
    THEN Ret(NoBet("Skipping"), [s EXCEPT !.rounds_to_skip = @ - 1])
    ELSE IF /\ round_history # <<>>
            /\ round_history[Len(round_history)].multiplier < s.p.skip_after_below
    THEN Ret(NoBet("Low multiplier detected, starting skip"),
             [s EXCEPT !.rounds_to_skip = s.p.skip_rounds])
    ELSE LET bet_amount == Times(s.bankroll, s.p.bet_percent)
         IN  IF bet_amount > s.bankroll
             THEN Ret(NoBet("Insufficient bankroll"), s)
             ELSE Ret(BetDecision(TRUE, bet_amount, s.p.target,
                                  "Normal bet after clear"), s)

----------------------------------------------------------------------------
(* DualBetStrategy (realistic_test.py) *)

\* realistic_test.py: MIN_BET.
MIN_BET == 2

\* increase_multiplier is given in hundredths (1.0 is 100).
DualBetStrategy(safety_target, profit_target, safety_bet, profit_bet, increase_after_wins, increase_multiplier, stop_loss_percent) ==
    Strategy_init("DualBet",
                  [safety_target |-> safety_target,
                   profit_target |-> profit_target,
                   base_safety_bet |-> safety_bet,
                   base_profit_bet |-> profit_bet,
                   increase_after_wins |-> increase_after_wins,
                   increase_multiplier |-> increase_multiplier,
                   stop_loss_percent |-> stop_loss_percent],
                  DefaultBankroll)
    @@ [current_safety_bet |-> safety_bet, current_profit_bet |-> profit_bet]

DualBet_reset(s) ==
    [Strategy_reset(s) EXCEPT !.current_safety_bet = s.p.base_safety_bet,
                              !.current_profit_bet = s.p.base_profit_bet]

DualBet_decide(s, round_history) ==
    IF LossPercent(s) >= s.p.stop_loss_percent
    THEN Ret(NoBet("Stop loss triggered"), s)
    ELSE LET total_bet == s.current_safety_bet + s.current_profit_bet
         IN  IF total_bet > s.bankroll
             THEN IF MIN_BET * 2 <= s.bankroll
                  THEN Ret(BetDecision(TRUE, MIN_BET * 2, s.p.profit_target,
                                       "Dual bet"), s)
                  ELSE Ret(NoBet("Insufficient bankroll"), s)
             ELSE Ret(BetDecision(TRUE, total_bet, s.p.profit_target,
                                  "Dual bet"), s)

\* Both legs stake total_bet / 2.
DualBet_simulate_round(s, total_bet, multiplier) ==
    LET safety_bet == Times(total_bet, 50)
        profit_bet == Times(total_bet, 50)
        safety_leg == IF multiplier >= s.p.safety_target
                      THEN Times(safety_bet, s.p.safety_target - 100)
                      ELSE 0 - safety_bet
        profit_leg == IF multiplier >= s.p.profit_target
                      THEN Times(profit_bet, s.p.profit_target - 100)
                      ELSE 0 - profit_bet
    IN  safety_leg + profit_leg

DualBet_on_round_result(s, decision, round_data, won, profit) ==
    LET raise == /\ s.p.increase_after_wins > 0
                 /\ s.consecutive_wins >= s.p.increase_after_wins
        s1 == [s EXCEPT
                 !.current_safety_bet =
                     IF raise
                     THEN Min(Times(s.p.base_safety_bet, s.p.increase_multiplier),
                              Times(s.bankroll, 10))
                     ELSE s.p.base_safety_bet,
                 !.current_profit_bet =
                     IF raise
                     THEN Min(Times(s.p.base_profit_bet, s.p.increase_multiplier),
                              Times(s.bankroll, 10))
                     ELSE s.p.base_profit_bet]
    IN  Strategy_on_round_result(s1, decision, round_data, won, profit)

----------------------------------------------------------------------------
(* SkipAfterLossStrategy (realistic_test.py) *)

SkipAfterLossStrategy(target, bet_amount, skip_rounds, stop_loss_percent) ==
    Strategy_init("SkipAfterLoss",
                  [target |-> target, bet_amount |-> bet_amount,
                   skip_rounds |-> skip_rounds,
                   stop_loss_percent |-> stop_loss_percent],
                  DefaultBankroll)
    @@ [rounds_to_skip |-> 0]

SkipAfterLoss_reset(s) == [Strategy_reset(s) EXCEPT !.rounds_to_skip = 0]

SkipAfterLoss_decide(s, round_history) ==
    IF LossPercent(s) >= s.p.stop_loss_percent
    THEN Ret(NoBet("Stop loss triggered"), s)
    ELSE IF s.rounds_to_skip > 0
    THEN Ret(NoBet("Skipping"), [s EXCEPT !.rounds_to_skip = @ - 1])
    ELSE LET bet == Min(s.p.bet_amount, s.bankroll)
         IN  IF bet < MIN_BET
             THEN Ret(NoBet("Insufficient bankroll"), s)
             ELSE Ret(BetDecision(TRUE, bet, s.p.target, "Normal bet"), s)

SkipAfterLoss_on_round_result(s, decision, round_data, won, profit) ==
    LET s1 == Strategy_on_round_result(s, decision, round_data, won, profit)
    IN  IF decision.should_bet /\ ~won
        THEN [s1 EXCEPT !.rounds_to_skip = s.p.skip_rounds]
        ELSE s1

----------------------------------------------------------------------------
(* Dynamic dispatch on the strategy's class *)

reset(s) ==
    CASE s.kind = "Martingale" -> Martingale_reset(s)
      [] s.kind = "AntiMartingale" -> AntiMartingale_reset(s)
      [] s.kind = "PatternBased" -> PatternBased_reset(s)
      [] s.kind = "AdaptiveTarget" -> AdaptiveTarget_reset(s)
      [] s.kind = "SkipLow" -> SkipLow_reset(s)
      [] s.kind = "DualBet" -> DualBet_reset(s)
      [] s.kind = "SkipAfterLoss" -> SkipAfterLoss_reset(s)
      [] OTHER -> Strategy_reset(s)

\* Whether decide raises: loss_percent divides by initial_bankroll
\* (ZeroDivisionError) in every decide; PatternBased indexes the history.
decide_raises(s, round_history) ==
    IF s.initial_bankroll = 0 THEN TRUE
    ELSE s.kind = "PatternBased" /\ PatternBased_decide_raises(s, round_history)

decide(s, round_history) ==
    CASE s.kind = "FixedTarget" -> FixedTarget_decide(s, round_history)
      [] s.kind = "Martingale" -> Martingale_decide(s, round_history)
      [] s.kind = "AntiMartingale" -> AntiMartingale_decide(s, round_history)
      [] s.kind = "PatternBased" -> PatternBased_decide(s, round_history)
      [] s.kind = "AdaptiveTarget" -> AdaptiveTarget_decide(s, round_history)
      [] s.kind = "HybridML" -> HybridML_decide(s, round_history)
      [] s.kind = "SafetyFirst" -> SafetyFirst_decide(s, round_history)
      [] s.kind = "SkipLow" -> SkipLow_decide(s, round_history)
      [] s.kind = "DualBet" -> DualBet_decide(s, round_history)
      [] s.kind = "SkipAfterLoss" -> SkipAfterLoss_decide(s, round_history)

on_round_result(s, decision, round_data, won, profit) ==
    CASE s.kind = "Martingale" ->
             Martingale_on_round_result(s, decision, round_data, won, profit)
      [] s.kind = "AntiMartingale" ->
             AntiMartingale_on_round_result(s, decision, round_data, won, profit)
      [] s.kind = "AdaptiveTarget" ->
             AdaptiveTarget_on_round_result(s, decision, round_data, won, profit)
      [] s.kind = "DualBet" ->
             DualBet_on_round_result(s, decision, round_data, won, profit)
      [] s.kind = "SkipAfterLoss" ->
             SkipAfterLoss_on_round_result(s, decision, round_data, won, profit)
      [] OTHER -> Strategy_on_round_result(s, decision, round_data, won, profit)

----------------------------------------------------------------------------
(* calculate_metrics: the counts, the financial fields, the drawdown, the  *)
(* profit factor, the streaks and the equity extremes of the report; a     *)
(* report of no trades carries every field.  roi_percent is in hundredths  *)
(* of a percent, rounded down; profit_factor is an exact quotient.         *)

\* A float that is a quotient of two integers, kept exact: num / den with
\* den > 0; den = 0 stands for float('inf') (num > 0) and float('-inf')
\* (num < 0).
Ratio(num, den) == [num |-> num, den |-> den]

Number(n) == Ratio(n, 1)

Infinity == Ratio(1, 0)

NegInfinity == Ratio(0 - 1, 0)

\* -1, 0, 1 for -inf, a finite value, +inf.
InfRank(x) == IF x.den # 0 THEN 0 ELSE IF x.num > 0 THEN 1 ELSE 0 - 1

\* a < b on floats.
RatioLess(a, b) ==
    IF a.den = 0 \/ b.den = 0 THEN InfRank(a) < InfRank(b)
    ELSE a.num * b.den < b.num * a.den

\* a = b on floats.
RatioEq(a, b) == a.num * b.den = b.num * a.den

\* sum(winning_trades), abs(sum(losing_trades)).
RECURSIVE GrossProfit(_)
GrossProfit(history) ==
    IF history = <<>> THEN 0
    ELSE (IF history[1].profit > 0 THEN history[1].profit ELSE 0)
         + GrossProfit(Tail(history))

RECURSIVE GrossLoss(_)
GrossLoss(history) ==
    IF history = <<>> THEN 0
    ELSE (IF history[1].profit < 0 THEN 0 - history[1].profit ELSE 0)
         + GrossLoss(Tail(history))

\* profit_factor that is infinite whenever there is no loss.
ProfitFactor_InfWithoutLoss(history) ==
    LET gross_profit == GrossProfit(history)
        gross_loss == GrossLoss(history)
    IN  IF gross_loss > 0 THEN Ratio(gross_profit, gross_loss)
        ELSE Infinity

\* metrics.py 121-123.
ProfitFactor(history) ==
    LET gross_profit == GrossProfit(history)
        gross_loss == GrossLoss(history)
    IN  IF gross_loss > 0 THEN Ratio(gross_profit, gross_loss)
        ELSE IF gross_profit > 0 THEN Infinity
        ELSE Number(0)

RECURSIVE SumOf(_, _)
SumOf(history, field) ==
    IF history = <<>> THEN 0
    ELSE history[1][field] + SumOf(Tail(history), field)

RECURSIVE CountWon(_)
CountWon(history) ==
    IF history = <<>> THEN 0
    ELSE (IF history[1].won THEN 1 ELSE 0) + CountWon(Tail(history))

\* The longest run of consecutive trades whose won flag is flag
\* (metrics.py 140-154); current is the run that ends at the head.
RECURSIVE MaxStreak(_, _, _)
MaxStreak(history, flag, current) ==
    IF history = <<>> THEN 0
    ELSE LET c == IF history[1].won = flag THEN current + 1 ELSE 0
         IN  Max(c, MaxStreak(Tail(history), flag, c))

\* metrics.py 131-138: the largest fall of the equity curve below its
\* running peak.
RECURSIVE MaxDrawdown(_, _, _)
MaxDrawdown(equity_curve, peak, max_dd) ==
    IF equity_curve = <<>> THEN max_dd
    ELSE LET p == Max(peak, equity_curve[1])
             dd == p - equity_curve[1]
         IN  MaxDrawdown(Tail(equity_curve), p, Max(max_dd, dd))

\* [initial_bankroll] + bankrolls.
EquityCurve(history, initial_bankroll) ==
    <<initial_bankroll>> \o [k \in 1..Len(history) |-> history[k].bankroll]

\* The drawdown loop that also takes a drawdown equal to the largest so far.
DrawdownStep_TakesTies(st, equity) ==
    LET peak == IF equity > st.peak THEN equity ELSE st.peak
        dd == peak - equity
        dd_pct == IF peak > 0 THEN Ratio(dd, peak) ELSE Number(0)
    IN  IF dd >= st.max_dd
        THEN [peak |-> peak, max_dd |-> dd, max_dd_pct |-> dd_pct]
        ELSE [st EXCEPT !.peak = peak]

\* metrics.py 131-138: one iteration of the drawdown loop on its variables
\* peak, max_dd and max_dd_pct (a fraction, kept exact).
DrawdownStep(st, equity) ==
    LET peak == IF equity > st.peak THEN equity ELSE st.peak
        dd == peak - equity
        dd_pct == IF peak > 0 THEN Ratio(dd, peak) ELSE Number(0)
    IN  IF dd > st.max_dd
        THEN [peak |-> peak, max_dd |-> dd, max_dd_pct |-> dd_pct]
        ELSE [st EXCEPT !.peak = peak]

\* metrics.py 127-129: the loop variables before the first iteration.
DrawdownStart(equity_curve) ==
    [peak |-> equity_curve[1], max_dd |-> 0, max_dd_pct |-> Number(0)]

\* The loop variables after each iteration of the drawdown loop.
RECURSIVE DrawdownTrace(_, _)
DrawdownTrace(equity_curve, st) ==
    IF equity_curve = <<>> THEN <<>>
    ELSE LET s1 == DrawdownStep(st, equity_curve[1])
         IN  <<s1>> \o DrawdownTrace(Tail(equity_curve), s1)

\* max_dd_pct * 100 (metrics.py 198).
MaxDrawdownPercent(equity_curve) ==
    LET trace == DrawdownTrace(equity_curve, DrawdownStart(equity_curve))
        max_dd_pct == trace[Len(trace)].max_dd_pct
    IN  Ratio(max_dd_pct.num * 100, max_dd_pct.den)

\* metrics.py 157: returns = profits / bet_amounts, element by element.
Returns(history) ==
    [k \in 1..Len(history) |-> Ratio(history[k].profit, history[k].bet_amount)]

\* np.std(xs) > 0 for a sequence that is not empty: two elements differ.
StdPositive(xs) == \E j, k \in 1..Len(xs) : ~RatioEq(xs[j], xs[k])

\* metrics.py 159-173, the Sortino ratio.  With negative returns of
\* positive deviation the value (mean_return / downside_std) * sqrt(252)
\* is not a quotient of integers: it is kept as the returns it is computed
\* from.  Without negative returns mean_return > 0 exactly when one return
\* is above 0.
Sortino(history) ==
    LET returns == Returns(history)
        negative_returns == SelectSeq(returns, LAMBDA x : x.num < 0)
    IN  IF Len(returns) > 1
        THEN IF Len(negative_returns) > 0
             THEN IF StdPositive(negative_returns)
                  THEN [mean_of |-> returns, downside_std_of |-> negative_returns]
                  ELSE Number(0)
             ELSE IF \E k \in 1..Len(returns) : returns[k].num > 0
                  THEN Infinity
                  ELSE Number(0)
        ELSE Number(0)

\* calmar that divides by the drawdown in percent.
Calmar_ByPercent(total_profit, initial_bankroll, equity_curve) ==
    LET trace == DrawdownTrace(equity_curve, DrawdownStart(equity_curve))
        max_dd_pct == trace[Len(trace)].max_dd_pct
        annual_return == IF initial_bankroll > 0
                         THEN Ratio(total_profit, initial_bankroll)
                         ELSE Number(0)
    IN  IF max_dd_pct.num > 0
        THEN Ratio(annual_return.num * max_dd_pct.den,
                   annual_return.den * max_dd_pct.num * 100)
        ELSE Number(0)

\* metrics.py 175-177: annual_return = roi_percent / 100, which is
\* total_profit / initial_bankroll, divided by max_dd_pct, the fraction
\* the drawdown loop leaves; an exact quotient.
Calmar(total_profit, initial_bankroll, equity_curve) ==
    LET trace == DrawdownTrace(equity_curve, DrawdownStart(equity_curve))
        max_dd_pct == trace[Len(trace)].max_dd_pct
        annual_return == IF initial_bankroll > 0
                         THEN Ratio(total_profit, initial_bankroll)
                         ELSE Number(0)
    IN  IF max_dd_pct.num > 0
        THEN Ratio(annual_return.num * max_dd_pct.den,
                   annual_return.den * max_dd_pct.num)
        ELSE Number(0)

SeqMax(xs) == CHOOSE x \in {xs[k] : k \in 1..Len(xs)} :
                 \A k \in 1..Len(xs) : xs[k] <= x

SeqMin(xs) == CHOOSE x \in {xs[k] : k \in 1..Len(xs)} :
                 \A k \in 1..Len(xs) : xs[k] >= x

\* The report of no trades with rounds_skipped left at 0.
calculate_metrics_empty_NoSkipped(initial_bankroll, total_rounds) ==
    [total_rounds |-> total_rounds, rounds_bet |-> 0, rounds_won |-> 0,
     rounds_lost |-> 0, rounds_skipped |-> 0,
     initial_bankroll |-> initial_bankroll,
     final_bankroll |-> initial_bankroll,
     total_profit |-> 0, total_wagered |-> 0, roi_percent |-> 0,
     win_rate |-> 0, avg_win |-> 0, avg_loss |-> 0,
     profit_factor |-> Number(0),
     max_drawdown |-> 0, max_drawdown_percent |-> 0,
     max_consecutive_losses |-> 0, max_consecutive_wins |-> 0,
     sharpe_ratio |-> 0, sortino_ratio |-> 0, calmar_ratio |-> 0,
     expectancy |-> 0,
     peak_bankroll |-> initial_bankroll,
     lowest_bankroll |-> initial_bankroll]

\* metrics.py 68-94: the report of an empty trade log.
calculate_metrics_empty(initial_bankroll, total_rounds) ==
    [total_rounds |-> total_rounds,
     rounds_bet |-> 0,
     rounds_won |-> 0,
     rounds_lost |-> 0,
     rounds_skipped |-> total_rounds,
     initial_bankroll |-> initial_bankroll,
     final_bankroll |-> initial_bankroll,
     total_profit |-> 0,
     total_wagered |-> 0,
     roi_percent |-> 0,
     win_rate |-> 0,
     avg_win |-> 0,
     avg_loss |-> 0,
     profit_factor |-> Number(0),
     max_drawdown |-> 0,
     max_drawdown_percent |-> 0,
     max_consecutive_losses |-> 0,
     max_consecutive_wins |-> 0,
     sharpe_ratio |-> 0,
     sortino_ratio |-> 0,
     calmar_ratio |-> 0,
     expectancy |-> 0,
     peak_bankroll |-> initial_bankroll,
     lowest_bankroll |-> initial_bankroll]

calculate_metrics(history, initial_bankroll, total_rounds) ==
    IF history = <<>>
    THEN calculate_metrics_empty(initial_bankroll, total_rounds)
    ELSE LET rounds_bet == Len(history)
             rounds_won == CountWon(history)
             final_bankroll == history[Len(history)].bankroll
             total_profit == final_bankroll - initial_bankroll
             equity_curve == EquityCurve(history, initial_bankroll)
         IN  [total_rounds |-> total_rounds,
              rounds_bet |-> rounds_bet,
              rounds_won |-> rounds_won,
              rounds_lost |-> rounds_bet - rounds_won,
              rounds_skipped |-> total_rounds - rounds_bet,
              initial_bankroll |-> initial_bankroll,
              final_bankroll |-> final_bankroll,
              total_profit |-> total_profit,
              total_wagered |-> SumOf(history, "bet_amount"),
              roi_percent |-> IF initial_bankroll > 0
                              THEN (total_profit * 10000) \div initial_bankroll
                              ELSE 0,
              profit_factor |-> ProfitFactor(history),
              max_drawdown |-> MaxDrawdown(equity_curve, initial_bankroll, 0),
              max_drawdown_percent |-> MaxDrawdownPercent(equity_curve),
              sortino_ratio |-> Sortino(history),
              calmar_ratio |-> Calmar(total_profit, initial_bankroll, equity_curve),
              max_consecutive_losses |-> MaxStreak(history, FALSE, 0),
              max_consecutive_wins |-> MaxStreak(history, TRUE, 0),
              peak_bankroll |-> SeqMax(equity_curve),
              lowest_bankroll |-> SeqMin(equity_curve)]

----------------------------------------------------------------------------
(* BacktestEngine.run_backtest                                             *)
(*                                                                         *)
(* A frame is one activation of run_backtest together with the engine and  *)
(* the strategy object it works on: rounds is engine.rounds; config the    *)
(* BacktestConfig; strategy the strategy object; rounds_to_test, i,        *)
(* round_history and decision the locals of the loop (i counts from 0 as   *)
(* in the code, sequences from 1); pc the position in the code:            *)
(*   "idle"   run_backtest not yet called                                  *)
(*   "decide" at the top of the loop body for index i                      *)
(*   "bet"    decide returned should_bet, the bet is not yet resolved      *)
(*   "check"  at the bankruptcy check of index i                           *)
(*   "done"   run_backtest returned metrics                                *)
(*   "raised" run_backtest was left by an exception raised in decide       *)
(* calls records the calls made on the strategy during this activation,    *)
(* constructed the strategy object as its constructor returned it, run_no  *)
(* counts the activations on this engine and first keeps what the first    *)
(* activation returned (reused: the second activation works on the same    *)
(* strategy object as the first).                                          *)

BacktestConfig(initial_bankroll, start_round, end_round, warmup_rounds) ==
    [initial_bankroll |-> initial_bankroll, start_round |-> start_round,
     end_round |-> end_round, warmup_rounds |-> warmup_rounds]

Frame(rounds, config, strategy) ==
    [rounds |-> rounds, config |-> config, strategy |-> strategy,
     constructed |-> strategy,
     rounds_to_test |-> <<>>, i |-> 0, round_history |-> <<>>,
     decision |-> None, pc |-> "idle", calls |-> <<>>,
     metrics |-> None, run_no |-> 1, reused |-> FALSE, first |-> None]

\* engine.py 107-114: filter by id range.
IdRange(rounds, config) ==
    LET r1 == IF config.start_round # None
              THEN SelectSeq(rounds, LAMBDA r : r.id >= The(config.start_round))
              ELSE rounds
    IN  IF config.end_round # None
        THEN SelectSeq(r1, LAMBDA r : r.id <= The(config.end_round))
        ELSE r1

\* The filter by id range with the warmup rounds kept.
RoundsToTest_KeepsWarmup(rounds, config) == IdRange(rounds, config)

\* engine.py 107-118: filter by id range, then skip the warmup rounds.
RoundsToTest(rounds, config) ==
    LET r2 == IdRange(rounds, config)
    IN  IF config.warmup_rounds > 0
        THEN SubSeq(r2, config.warmup_rounds + 1, Len(r2))
        ELSE r2

\* engine.py 102-124.
run_backtest_begin(f) ==
    LET s0 == [reset(f.strategy) EXCEPT
                   !.bankroll = f.config.initial_bankroll,
                   !.initial_bankroll = f.config.initial_bankroll]
        rtt == RoundsToTest(f.rounds, f.config)
    IN  IF rtt = <<>>
        THEN [f EXCEPT !.strategy = s0, !.rounds_to_test = rtt, !.i = 0,
                       !.round_history = <<>>, !.decision = None,
                       !.calls = <<>>,
                       !.metrics = Some(calculate_metrics(
                                          <<>>, f.config.initial_bankroll, 0)),
                       !.pc = "done"]
        ELSE [f EXCEPT !.strategy = s0, !.rounds_to_test = rtt, !.i = 0,
                       !.round_history = <<>>, !.decision = None,
                       !.calls = <<>>, !.metrics = None,
                       !.pc = "decide"]

\* engine.py 128: rounds_to_test[:i].
RoundHistory_WithCurrent(rounds_to_test, i) == SubSeq(rounds_to_test, 1, i + 1)

RoundHistory(rounds_to_test, i) == SubSeq(rounds_to_test, 1, i)

\* engine.py 126-133.
DecideStep_AlwaysBet(f) ==
    LET h == RoundHistory(f.rounds_to_test, f.i)
        r == decide(f.strategy, h)
    IN  [f EXCEPT !.round_history = h,
                  !.decision = Some(r.d),
                  !.strategy = r.s,
                  !.calls = Append(@, [op |-> "decide", idx |-> f.i,
                                       history |-> h, decision |-> r.d,
                                       bankroll_before |-> f.strategy.bankroll,
                                       bankroll_after |-> r.s.bankroll,
                                       trades_before |-> Len(f.strategy.history),
                                       trades_after |-> Len(r.s.history)]),
                  !.pc = "bet"]

DecideStep(f) ==
    LET h == RoundHistory(f.rounds_to_test, f.i)
        r == decide(f.strategy, h)
    IN  IF decide_raises(f.strategy, h)
        THEN [f EXCEPT !.round_history = h, !.pc = "raised"]
        ELSE
        [f EXCEPT !.round_history = h,
                  !.decision = Some(r.d),
                  !.strategy = r.s,
                  !.calls = Append(@, [op |-> "decide", idx |-> f.i,
                                       history |-> h, decision |-> r.d,
                                       bankroll_before |-> f.strategy.bankroll,
                                       bankroll_after |-> r.s.bankroll,
                                       trades_before |-> Len(f.strategy.history),
                                       trades_after |-> Len(r.s.history)]),
                  !.pc = IF r.d.should_bet THEN "bet" ELSE "check"]

\* engine.py 135-143: the outcome of the bet.
Resolve_Strict(s, decision, current_round) ==
    IF s.kind = "SafetyFirst"
    THEN LET profit == SafetyFirst_simulate_round(s, decision.bet_amount,
                                                  current_round.multiplier)
         IN  [won |-> profit > 0, profit |-> profit]
    ELSE LET won == current_round.multiplier > decision.cashout_target
         IN  [won |-> won,
              profit |-> IF won
                         THEN Times(decision.bet_amount, decision.cashout_target - 100)
                         ELSE 0 - decision.bet_amount]

Resolve_GrossPayout(s, decision, current_round) ==
    IF s.kind = "SafetyFirst"
    THEN LET profit == SafetyFirst_simulate_round(s, decision.bet_amount,
                                                  current_round.multiplier)
         IN  [won |-> profit > 0, profit |-> profit]
    ELSE LET won == current_round.multiplier >= decision.cashout_target
         IN  [won |-> won,
              profit |-> IF won
                         THEN Times(decision.bet_amount, decision.cashout_target)
                         ELSE 0 - decision.bet_amount]

Resolve(s, decision, current_round) ==
    IF s.kind = "SafetyFirst"
    THEN LET profit == SafetyFirst_simulate_round(s, decision.bet_amount,
                                                  current_round.multiplier)
         IN  [won |-> profit > 0, profit |-> profit]
    ELSE LET won == current_round.multiplier >= decision.cashout_target
         IN  [won |-> won,
              profit |-> IF won
                         THEN Times(decision.bet_amount, decision.cashout_target - 100)
                         ELSE 0 - decision.bet_amount]

\* engine.py 133-146.
BetStep(f) ==
    LET current_round == f.rounds_to_test[f.i + 1]
        d == The(f.decision)
        res == Resolve(f.strategy, d, current_round)
        s1 == on_round_result(f.strategy, d, current_round, res.won, res.profit)
    IN  [f EXCEPT !.strategy = s1,
                  !.calls = Append(@, [op |-> "on_round_result", idx |-> f.i,
                                       decision |-> d,
                                       won |-> res.won, profit |-> res.profit,
                                       bankroll_before |-> f.strategy.bankroll,
                                       bankroll_after |-> s1.bankroll,
                                       trades_before |-> Len(f.strategy.history),
                                       trades_after |-> Len(s1.history)]),
                  !.pc = "check"]

\* engine.py 159-166.
\* The report computed with the number of all the engine's rounds.
Finish_CountsAllRounds(f) ==
    [f EXCEPT !.metrics = Some(calculate_metrics(f.strategy.history,
                                                 f.config.initial_bankroll,
                                                 Len(f.rounds))),
              !.pc = "done"]

Finish(f) ==
    [f EXCEPT !.metrics = Some(calculate_metrics(f.strategy.history,
                                                 f.config.initial_bankroll,
                                                 Len(f.rounds_to_test))),
              !.pc = "done"]

\* engine.py 153-157 and the end of the for loop.
CheckStep_NegativeOnly(f) ==
    IF f.strategy.bankroll < 0 THEN Finish(f)
    ELSE IF f.i + 1 < Len(f.rounds_to_test)
    THEN [f EXCEPT !.i = @ + 1, !.pc = "decide"]
    ELSE Finish(f)

CheckStep(f) ==
    IF f.strategy.bankroll <= 0 THEN Finish(f)
    ELSE IF f.i + 1 < Len(f.rounds_to_test)
    THEN [f EXCEPT !.i = @ + 1, !.pc = "decide"]
    ELSE Finish(f)

\* A second call of run_backtest on the same engine with the same config,
\* on the same strategy object (reuse) or on a newly constructed one.
RunAgain(f, reuse) ==
    [f EXCEPT !.first = Some([metrics |-> The(f.metrics),
                              history |-> f.strategy.history]),
              !.strategy = IF reuse THEN f.strategy ELSE f.constructed,
              !.run_no = @ + 1,
              !.reused = reuse,
              !.pc = "idle"]

----------------------------------------------------------------------------
(* The inputs *)

\* Multipliers in hundredths: an early crash, a middling round and a high one.
Multipliers == {110, 250, 600}

\* The rounds as _load_data returns them: ascending ids, here 11, 13, 15, ...
MkRounds(ms) == [k \in 1..Len(ms) |-> RoundData(2 * k + 9, ms[k])]

RoundSeqs(n) == {MkRounds(ms) : ms \in [1..n -> Multipliers]}

AllRoundSeqs == UNION {RoundSeqs(n) : n \in 0..MaxRounds}

Configs ==
    {BacktestConfig(100, start_round, end_round, warmup_rounds) :
        start_round \in {None, Some(13)},
        end_round \in {None, Some(15)},
        warmup_rounds \in {0, 1}}

Predictions ==
    (11 :> [prob_gt_2x |-> 70, prob_gt_3x |-> 45, prob_early_crash |-> 10])
    @@ (13 :> [prob_gt_2x |-> 70, prob_early_crash |-> 50])
    @@ (15 :> [prob_gt_2x |-> 55])

Strategies ==
    {FixedTargetStrategy(200, 10, 1, 100, 50, 100),
     FixedTargetStrategy(250, 100, 1, 100, 50, 100),
     MartingaleStrategy(200, 10, 200, 2, 50),
     MartingaleStrategy(250, 50, 200, 5, 100),
     AntiMartingaleStrategy(200, 10, 200, 2, 50, 100),
     PatternBasedStrategy(10, 1, 200, 200, 1, 500, 50),
     PatternBasedStrategy(200, 1, 200, 200, 1, 500, 50),
     AdaptiveTargetStrategy(300, 150, 50, 10, 2, 50),
     HybridMLStrategy(10, 60, 30, TRUE, 200, 50, Predictions),
     SafetyFirstStrategy(150, 300, 70, 20, 50, 100),
     SkipLowStrategy(200, 10, 120, 2, 50)}

----------------------------------------------------------------------------
(* State *)

\* run:  a frame of run_backtest.
\* twin: a second, independent frame (its own engine and strategy object).
\* api:  a strategy object whose methods are called directly, with the last
\*       call made on it (before: the object as it was before the call) and
\*       the call before that.
\* job:  an activation of one of the drivers that call run_backtest
\*       (grid_search, run_comparison, walk_forward_test) or of
\*       monte_carlo_simulation.
VARIABLES run, twin, api, job

vars == <<run, twin, api, job>>

\* No driver is active.
NoJob == [op |-> "none"]

\* The frame of a run that does not take part.
NoFrame == Frame(<<>>, BacktestConfig(100, None, None, 0),
                 FixedTargetStrategy(200, 10, 1, 100, 50, 100))

NoCall == [op |-> "none"]

ApiObject(strategy) == [strategy |-> strategy, last |-> NoCall, prev |-> NoCall]

NoApi == ApiObject(FixedTargetStrategy(200, 10, 1, 100, 50, 100))

----------------------------------------------------------------------------
(* Specification of run_backtest: one engine, one strategy object, called  *)
(* once and then once more with the same config.                           *)

Init ==
    /\ run \in {Frame(rounds, config, strategy) :
                    rounds \in AllRoundSeqs, config \in Configs,
                    strategy \in Strategies}
    /\ twin = NoFrame
    /\ api = NoApi
    /\ job = NoJob

Begin ==
    /\ run.pc = "idle"
    /\ run' = run_backtest_begin(run)
    /\ UNCHANGED <<twin, api, job>>

Decide ==
    /\ run.pc = "decide"
    /\ run' = DecideStep(run)
    /\ UNCHANGED <<twin, api, job>>

Bet ==
    /\ run.pc = "bet"
    /\ run' = BetStep(run)
    /\ UNCHANGED <<twin, api, job>>

Check ==
    /\ run.pc = "check"
    /\ run' = CheckStep(run)
    /\ UNCHANGED <<twin, api, job>>

Again ==
    /\ run.pc = "done"
    /\ run.run_no = 1
    /\ \E reuse \in BOOLEAN : run' = RunAgain(run, reuse)
    /\ UNCHANGED <<twin, api, job>>

Next == Begin \/ Decide \/ Bet \/ Check \/ Again

Spec == Init /\ [][Next]_vars

----------------------------------------------------------------------------
(* Specification of two runs side by side: the same strategy and config on *)
(* two engines whose round sequences are chosen independently.  The runs   *)
(* share nothing, so they are advanced together, one step of the code each.*)

PairRoundSeqs == UNION {RoundSeqs(n) : n \in 0..PairRounds}

PairConfigs ==
    {BacktestConfig(100, None, None, warmup_rounds) : warmup_rounds \in {0, 1}}

PairInit ==
    /\ \E strategy \in Strategies, config \in PairConfigs :
          /\ run \in {Frame(rounds, config, strategy) : rounds \in PairRoundSeqs}
          /\ twin \in {Frame(rounds, config, strategy) : rounds \in PairRoundSeqs}
    /\ api = NoApi
    /\ job = NoJob

\* One step of run_backtest in frame f; a frame that has returned stays.
Step(f) ==
    CASE f.pc = "idle" -> run_backtest_begin(f)
      [] f.pc = "decide" -> DecideStep(f)
      [] f.pc = "bet" -> BetStep(f)
      [] f.pc = "check" -> CheckStep(f)
      [] f.pc = "done" -> f
      [] f.pc = "raised" -> f

PairStep ==
    /\ run.pc # "done" \/ twin.pc # "done"
    /\ run' = Step(run)
    /\ twin' = Step(twin)
    /\ UNCHANGED <<api, job>>

PairNext == PairStep

SpecPair == PairInit /\ [][PairNext]_vars

----------------------------------------------------------------------------
(* Specification of a strategy object whose reset, decide and              *)
(* on_round_result are called in any order with any arguments.             *)

ApiHistories == UNION {RoundSeqs(n) : n \in 0..1}

ApiInit ==
    /\ api \in {ApiObject(strategy) : strategy \in Strategies}
    /\ run = NoFrame
    /\ twin = NoFrame
    /\ job = NoJob

\* A call without the object it was made on.
Earlier(call) == [k \in DOMAIN call \ {"before"} |-> call[k]]

ApiReset ==
    /\ api' = [strategy |-> reset(api.strategy),
               last |-> [op |-> "reset", before |-> api.strategy],
               prev |-> Earlier(api.last)]
    /\ UNCHANGED <<run, twin, job>>

ApiDecide ==
    /\ \E h \in ApiHistories :
          LET r == decide(api.strategy, h)
          IN  api' = [strategy |-> r.s,
                      last |-> [op |-> "decide", before |-> api.strategy,
                                history |-> h, decision |-> r.d],
                      prev |-> Earlier(api.last)]
    /\ UNCHANGED <<run, twin, job>>

\* The decisions on_round_result is called with: the one decide returned
\* last, a bet of 10 at 2.0x, and a refusal.
ApiDecisions ==
    {BetDecision(TRUE, 10, 200, "direct"), NoBet("direct")}
    \cup (IF api.last.op = "decide" THEN {api.last.decision} ELSE {})

ApiResult ==
    /\ api.strategy.total_bets < MaxBets
    /\ \E d \in ApiDecisions, won \in BOOLEAN :
          LET profit == IF won THEN Times(d.bet_amount, d.cashout_target - 100)
                        ELSE 0 - d.bet_amount
          IN  api' = [strategy |-> on_round_result(api.strategy, d,
                                                   RoundData(11, 250), won, profit),
                      last |-> [op |-> "on_round_result", before |-> api.strategy,
                                decision |-> d, won |-> won, profit |-> profit],
                      prev |-> Earlier(api.last)]
    /\ UNCHANGED <<run, twin, job>>

ApiNext == ApiReset \/ ApiDecide \/ ApiResult

SpecApi == ApiInit /\ [][ApiNext]_vars

----------------------------------------------------------------------------
(* Specification of run_backtest on short round sequences, with a wider    *)
(* choice of multipliers and with the dual-bet strategy of                 *)
(* realistic_test.py among the strategies.                                 *)

ShortMultipliers == {110, 150, 250, 600}

ShortRoundSeqs ==
    UNION {{MkRounds(ms) : ms \in [1..n -> ShortMultipliers]} : n \in 0..MaxShort}

DualBetStrategies ==
    {DualBetStrategy(200, 300, 2, 2, 0, 100, 50),
     DualBetStrategy(150, 250, 4, 4, 1, 200, 50)}

ShortInit ==
    /\ run \in {Frame(rounds, config, strategy) :
                    rounds \in ShortRoundSeqs, config \in Configs,
                    strategy \in Strategies \cup DualBetStrategies}
    /\ twin = NoFrame
    /\ api = NoApi
    /\ job = NoJob

SpecShort == ShortInit /\ [][Next]_vars

----------------------------------------------------------------------------
(* Specification of run_backtest with the ML-assisted strategy, over a     *)
(* range of prediction maps and thresholds.                                *)

\* What a prediction can hold: every probability on either side of the
\* cutoff it is compared with, a map without some of the keys, and the
\* empty map.
HybridPreds ==
    {[prob_gt_2x |-> a, prob_gt_3x |-> b, prob_gt_5x |-> c,
      prob_gt_10x |-> d, prob_early_crash |-> e] :
        a \in {50, 51, 70}, b \in {40, 41}, c \in {35, 36}, d \in {30, 31},
        e \in {30, 31}}
    \cup {[prob_gt_2x |-> 70], [prob_early_crash |-> 10], <<>>}

\* ml_predictions: no entry, or one entry under the id of the first or of
\* the second round.
HybridPredictions ==
    {<<>>} \cup {(id :> preds) : id \in {11, 13}, preds \in HybridPreds}

HybridStrategies ==
    {HybridMLStrategy(60, min_confidence, 30, use_adaptive_target, 150, 50,
                      ml_predictions) :
        min_confidence \in {0, 51, 60}, use_adaptive_target \in BOOLEAN,
        ml_predictions \in HybridPredictions}

HybridRoundSeqs ==
    UNION {{MkRounds(ms) : ms \in [1..n -> {110, 600}]} : n \in 0..MaxHybridRounds}

HybridInit ==
    /\ run \in {Frame(rounds, BacktestConfig(100, None, None, 0), strategy) :
                    rounds \in HybridRoundSeqs, strategy \in HybridStrategies}
    /\ twin = NoFrame
    /\ api = NoApi
    /\ job = NoJob

SpecHybrid == HybridInit /\ [][Next]_vars

----------------------------------------------------------------------------
(* Specification of run_backtest with the fixed-target strategy, over      *)
(* stake bounds below, around and above the bankroll.                      *)

FixedStrategies ==
    {FixedTargetStrategy(target, bet_percent, min_bet, max_bet, 95, 100) :
        target \in {150, 200}, bet_percent \in {10, 100},
        min_bet \in {5, 40, 120}, max_bet \in {20, 150}}

FixedRoundSeqs ==
    UNION {{MkRounds(ms) : ms \in [1..n -> {110, 250}]} : n \in 0..MaxFixedRounds}

FixedInit ==
    /\ run \in {Frame(rounds, BacktestConfig(100, None, None, 0), strategy) :
                    rounds \in FixedRoundSeqs, strategy \in FixedStrategies}
    /\ twin = NoFrame
    /\ api = NoApi
    /\ job = NoJob

SpecFixed == FixedInit /\ [][Next]_vars

----------------------------------------------------------------------------
(* Specification of run_backtest with the Martingale strategy, over base   *)
(* bets, multipliers and streak caps that make every reset happen.         *)

MartingaleStrategies ==
    {MartingaleStrategy(200, base_bet, multiplier, max_consecutive_losses,
                        stop_loss_percent) :
        base_bet \in {10, 30}, multiplier \in {200, 300},
        max_consecutive_losses \in {1, 2, 5}, stop_loss_percent \in {50, 100}}

MartingaleRoundSeqs ==
    UNION {{MkRounds(ms) : ms \in [1..n -> {110, 250}]} : n \in 0..MaxMartingaleRounds}

MartingaleInit ==
    /\ run \in {Frame(rounds, BacktestConfig(100, None, None, 0), strategy) :
                    rounds \in MartingaleRoundSeqs,
                    strategy \in MartingaleStrategies}
    /\ twin = NoFrame
    /\ api = NoApi
    /\ job = NoJob

SpecMartingale == MartingaleInit /\ [][Next]_vars

----------------------------------------------------------------------------
(* Specification of run_backtest with the pattern strategy, over streak    *)
(* lengths, cooldowns and thresholds on either side of each other.         *)

PatternStrategies ==
    {PatternBasedStrategy(10, min_streak_to_bet, streak_threshold, 200,
                          wait_after_high, high_threshold, 50) :
        min_streak_to_bet \in {1, 2}, streak_threshold \in {200, 700},
        wait_after_high \in {0, 1, 2}, high_threshold \in {150, 500}}

PatternRoundSeqs == UNION {RoundSeqs(n) : n \in 0..MaxPatternRounds}

PatternInit ==
    /\ run \in {Frame(rounds, BacktestConfig(100, None, None, 0), strategy) :
                    rounds \in PatternRoundSeqs, strategy \in PatternStrategies}
    /\ twin = NoFrame
    /\ api = NoApi
    /\ job = NoJob

SpecPattern == PatternInit /\ [][Next]_vars

----------------------------------------------------------------------------
(* Specification of run_backtest with the adaptive-target strategy, over   *)
(* decrements that stop above the floor and that overshoot it.             *)

AdaptiveStrategies ==
    {AdaptiveTargetStrategy(start_target, min_target, target_decrement, 10,
                            reset_after_wins, 50) :
        start_target \in {200, 300}, min_target \in {150, 250},
        target_decrement \in {50, 200}, reset_after_wins \in {1, 2, 3}}

AdaptiveRoundSeqs == UNION {RoundSeqs(n) : n \in 0..MaxAdaptiveRounds}

AdaptiveInit ==
    /\ run \in {Frame(rounds, BacktestConfig(100, None, None, 0), strategy) :
                    rounds \in AdaptiveRoundSeqs, strategy \in AdaptiveStrategies}
    /\ twin = NoFrame
    /\ api = NoApi
    /\ job = NoJob

SpecAdaptive == AdaptiveInit /\ [][Next]_vars

----------------------------------------------------------------------------
(* Specification of run_backtest with the two skipping strategies: runs    *)
(* long enough for a skip of two rounds to end and the next bet to follow. *)

SkipStrategies ==
    {SkipLowStrategy(200, 10, skip_after_below, skip_rounds, 50) :
        skip_after_below \in {120, 300}, skip_rounds \in {0, 1, 2}}
    \cup {SkipAfterLossStrategy(200, 10, skip_rounds, 50) :
             skip_rounds \in {0, 1, 2}}

SkipRoundSeqs ==
    UNION {{MkRounds(ms) : ms \in [1..n -> {110, 250}]} : n \in 0..MaxSkipRounds}

SkipInit ==
    /\ run \in {Frame(rounds, BacktestConfig(100, None, None, 0), strategy) :
                    rounds \in SkipRoundSeqs, strategy \in SkipStrategies}
    /\ twin = NoFrame
    /\ api = NoApi
    /\ job = NoJob

SpecSkip == SkipInit /\ [][Next]_vars

----------------------------------------------------------------------------
(* Specification of run_backtest for strategies of every kind that stake   *)
(* 30 of a bankroll of 100, with the stop-loss and take-profit thresholds  *)
(* at 50 percent: two lost bets reach the first, two won bets the second.  *)

StopStrategies ==
    {FixedTargetStrategy(200, 30, 1, 100, 50, 50),
     MartingaleStrategy(200, 30, 200, 5, 50),
     AntiMartingaleStrategy(200, 30, 200, 3, 50, 50),
     PatternBasedStrategy(30, 1, 200, 200, 0, 500, 50),
     AdaptiveTargetStrategy(200, 150, 50, 30, 2, 50),
     HybridMLStrategy(30, 60, 30, TRUE, 200, 50,
                      [id \in {11, 13, 15, 17, 19, 21} |-> [prob_gt_2x |-> 70]]),
     SafetyFirstStrategy(150, 300, 70, 30, 50, 50),
     SkipLowStrategy(200, 30, 100, 1, 50),
     DualBetStrategy(150, 300, 20, 10, 2, 150, 50),
     SkipAfterLossStrategy(200, 30, 0, 50)}

StopRoundSeqs ==
    UNION {{MkRounds(ms) : ms \in [1..n -> {110, 250}]} : n \in 0..MaxStopRounds}

StopInit ==
    /\ run \in {Frame(rounds, BacktestConfig(100, None, None, 0), strategy) :
                    rounds \in StopRoundSeqs, strategy \in StopStrategies}
    /\ twin = NoFrame
    /\ api = NoApi
    /\ job = NoJob

SpecStop == StopInit /\ [][Next]_vars

----------------------------------------------------------------------------
(* run_backtest as one call *)

RECURSIVE RunLoop(_)
RunLoop(f) == IF f.pc \in {"done", "raised"} THEN f ELSE RunLoop(Step(f))

\* engine.run_backtest(strategy, config) on an engine holding rounds: the
\* frame as the call left it (pc "done" with metrics, or "raised").
run_backtest(rounds, config, strategy) ==
    RunLoop(run_backtest_begin(Frame(rounds, config, strategy)))

----------------------------------------------------------------------------
(* Strategy classes called with keyword arguments *)

\* The keyword parameters a class accepts; any other keyword reaches
\* Strategy.__init__ through **kwargs and raises TypeError there.
ClassParams(strategy_class) ==
    CASE strategy_class = "FixedTarget" ->
             {"target", "bet_percent", "min_bet", "max_bet",
              "stop_loss_percent", "take_profit_percent", "initial_bankroll"}
      [] strategy_class = "PatternBased" ->
             {"bet_percent", "min_streak_to_bet", "streak_threshold",
              "target_after_streak", "wait_after_high", "high_threshold",
              "stop_loss_percent", "initial_bankroll"}

New_raises(strategy_class, params) ==
    ~(DOMAIN params \subseteq ClassParams(strategy_class))

\* The class called with params as keywords, every parameter not given
\* at its default.
New(strategy_class, params) ==
    LET s == CASE strategy_class = "FixedTarget" ->
                      FixedTargetStrategy(Get(params, "target", 200),
                                          Get(params, "bet_percent", 1),
                                          Get(params, "min_bet", 1),
                                          Get(params, "max_bet", 100),
                                          Get(params, "stop_loss_percent", 50),
                                          Get(params, "take_profit_percent", 100))
               [] strategy_class = "PatternBased" ->
                      PatternBasedStrategy(Get(params, "bet_percent", 1),
                                           Get(params, "min_streak_to_bet", 3),
                                           Get(params, "streak_threshold", 200),
                                           Get(params, "target_after_streak", 200),
                                           Get(params, "wait_after_high", 1),
                                           Get(params, "high_threshold", 500),
                                           Get(params, "stop_loss_percent", 50))
        initial_bankroll == Get(params, "initial_bankroll", DefaultBankroll)
    IN  [s EXCEPT !.initial_bankroll = initial_bankroll,
                  !.bankroll = initial_bankroll]

----------------------------------------------------------------------------
(* optimizer.grid_search *)

\* itertools.product over the value lists: the last list varies fastest.
RECURSIVE Product(_)
Product(param_values) ==
    IF param_values = <<>> THEN << <<>> >>
    ELSE LET first == Head(param_values)
             rest == Product(Tail(param_values))
         IN  [k \in 1..(Len(first) * Len(rest)) |->
                 <<first[((k - 1) \div Len(rest)) + 1]>>
                 \o rest[((k - 1) % Len(rest)) + 1]]

\* dict(zip(param_names, combo)).
ZipParams(param_names, combo) ==
    [n \in {param_names[k] : k \in 1..Len(param_names)} |->
        combo[CHOOSE k \in 1..Len(param_names) : param_names[k] = n]]

\* The fields of the report a sweep is ranked by here.
MetricFields == {"roi_percent", "total_profit", "profit_factor"}

\* get_metric: getattr(m, metric, 0) of a result's report.
get_metric(item, metric) ==
    CASE metric = "roi_percent" -> Number(item.metrics.roi_percent)
      [] metric = "total_profit" -> Number(item.metrics.total_profit)
      [] metric = "profit_factor" -> item.metrics.profit_factor
      [] OTHER -> Number(0)

\* list.sort(key=get_metric, reverse=True) is a stable sort: an item goes
\* behind every item placed before it whose key is not smaller.
RECURSIVE SortInsert_TiesFirst(_, _, _)
SortInsert_TiesFirst(item, sorted, metric) ==
    IF sorted = <<>> THEN <<item>>
    ELSE IF ~RatioLess(get_metric(item, metric), get_metric(Head(sorted), metric))
    THEN <<item>> \o sorted
    ELSE <<Head(sorted)>> \o SortInsert_TiesFirst(item, Tail(sorted), metric)

RECURSIVE SortInsert(_, _, _)
SortInsert(item, sorted, metric) ==
    IF sorted = <<>> THEN <<item>>
    ELSE IF RatioLess(get_metric(Head(sorted), metric), get_metric(item, metric))
    THEN <<item>> \o sorted
    ELSE <<Head(sorted)>> \o SortInsert(item, Tail(sorted), metric)

RECURSIVE SortResults(_, _)
SortResults(results, metric) ==
    IF results = <<>> THEN <<>>
    ELSE SortInsert(results[Len(results)],
                    SortResults(SubSeq(results, 1, Len(results) - 1), metric),
                    metric)

\* A call of grid_search: engine.rounds, the arguments, the combinations
\* (lines 44-46), the loop index i, the results appended so far; outcomes
\* records for each combination tried whether it was kept; pc is "loop",
\* "done" (returned) or "raised".
GridSearch(rounds, strategy_class, param_grid, config, metric, verbose) ==
    [op |-> "grid_search", rounds |-> rounds,
     strategy_class |-> strategy_class,
     param_names |-> [k \in 1..Len(param_grid) |-> param_grid[k][1]],
     combinations |-> Product([k \in 1..Len(param_grid) |-> param_grid[k][2]]),
     config |-> config, metric |-> metric, verbose |-> verbose,
     i |-> 0, results |-> <<>>, outcomes |-> <<>>, pc |-> "loop"]

\* Whether the body of the try block raises for params.
Combo_raises(j, params) ==
    IF New_raises(j.strategy_class, params) THEN TRUE
    ELSE run_backtest(j.rounds, j.config, New(j.strategy_class, params)).pc
            = "raised"

\* optimizer.py 54-68 with the sweep ended by the first failure.
grid_search_step_StopOnError(j) ==
    LET params == ZipParams(j.param_names, j.combinations[j.i + 1])
    IN  IF Combo_raises(j, params)
        THEN [j EXCEPT !.i = Len(j.combinations),
                       !.outcomes = Append(@, "failed")]
        ELSE LET f == run_backtest(j.rounds, j.config,
                                   New(j.strategy_class, params))
             IN  [j EXCEPT !.i = @ + 1,
                           !.outcomes = Append(@, "kept"),
                           !.results = Append(@, [params |-> params,
                                                  metrics |-> The(f.metrics),
                                                  strategy |-> f.strategy])]

\* optimizer.py 54-68: one iteration of the loop over the combinations.
grid_search_step(j) ==
    LET params == ZipParams(j.param_names, j.combinations[j.i + 1])
    IN  IF Combo_raises(j, params)
        THEN [j EXCEPT !.i = @ + 1, !.outcomes = Append(@, "failed")]
        ELSE LET f == run_backtest(j.rounds, j.config,
                                   New(j.strategy_class, params))
             IN  [j EXCEPT !.i = @ + 1,
                           !.outcomes = Append(@, "kept"),
                           !.results = Append(@, [params |-> params,
                                                  metrics |-> The(f.metrics),
                                                  strategy |-> f.strategy])]

\* optimizer.py 70-90: sort, print the best result when verbose, return.
\* The print reads getattr(best_metrics, metric) without a default and
\* raises AttributeError when the report has no such field.
grid_search_return(j) ==
    LET sorted == SortResults(j.results, j.metric)
    IN  IF j.verbose /\ sorted # <<>> /\ j.metric \notin MetricFields
        THEN [j EXCEPT !.results = sorted, !.pc = "raised"]
        ELSE [j EXCEPT !.results = sorted, !.pc = "done"]

GridRoundSeqs == UNION {RoundSeqs(n) : n \in 0..MaxGridRounds}

\* Parameter grids: name and values, in the order of the dict.
ParamGrids ==
    {[strategy_class |-> "FixedTarget",
      param_grid |-> << <<"target", <<200, 250>> >>, <<"bet_percent", <<10>> >> >>],
     [strategy_class |-> "FixedTarget",
      param_grid |-> << <<"target", <<600, 150, 250>> >>,
                        <<"bet_percent", <<10, 50>> >> >>],
     [strategy_class |-> "PatternBased",
      param_grid |-> << <<"min_streak_to_bet", <<1, 0, 2>> >>,
                        <<"bet_percent", <<10, 20>> >> >>],
     [strategy_class |-> "FixedTarget",
      param_grid |-> << <<"target", <<200, 250>> >>, <<"cashout", <<150>> >> >>]}

GridMetrics == {"roi_percent", "profit_factor", "total_profit", "win_streak"}

GridInit ==
    /\ job \in {GridSearch(rounds, g.strategy_class, g.param_grid,
                           BacktestConfig(100, None, None, 0), metric, verbose) :
                    rounds \in GridRoundSeqs, g \in ParamGrids,
                    metric \in GridMetrics, verbose \in BOOLEAN}
    /\ run = NoFrame
    /\ twin = NoFrame
    /\ api = NoApi

GridStep ==
    /\ job.op = "grid_search"
    /\ job.pc = "loop"
    /\ job.i < Len(job.combinations)
    /\ job' = grid_search_step(job)
    /\ UNCHANGED <<run, twin, api>>

GridReturn ==
    /\ job.op = "grid_search"
    /\ job.pc = "loop"
    /\ job.i = Len(job.combinations)
    /\ job' = grid_search_return(job)
    /\ UNCHANGED <<run, twin, api>>

GridNext == GridStep \/ GridReturn

SpecGrid == GridInit /\ [][GridNext]_vars

----------------------------------------------------------------------------
(* BacktestEngine.run_comparison *)

\* strategy.name as the constructors format it: the class label, followed
\* by the targets the f-string interpolates.
name(s) ==
    CASE s.kind \in {"FixedTarget", "Martingale", "AntiMartingale"} ->
             <<s.kind, s.p.target>>
      [] s.kind = "DualBet" -> <<s.kind, s.p.safety_target, s.p.profit_target>>
      [] s.kind = "SkipAfterLoss" -> <<s.kind, s.p.skip_rounds>>
      [] OTHER -> <<s.kind>>

\* d[key] = value on a dict held as a sequence of entries in insertion
\* order: an existing key keeps its place and takes the new value.
DictSet(d, key, value) ==
    IF \E k \in 1..Len(d) : d[k].key = key
    THEN [k \in 1..Len(d) |->
              IF d[k].key = key THEN [key |-> key, value |-> value] ELSE d[k]]
    ELSE Append(d, [key |-> key, value |-> value])

DictKeys(d) == {d[k].key : k \in 1..Len(d)}

DictGet(d, key) == (CHOOSE k \in 1..Len(d) : d[k].key = key)

\* A call of run_comparison: the strategies in list order, the loop index
\* and the results dict.
RunComparison(rounds, strategies, config) ==
    [op |-> "run_comparison", rounds |-> rounds, strategies |-> strategies,
     config |-> config, i |-> 0, results |-> <<>>, pc |-> "loop"]

\* engine.py 185-188: one iteration of the loop over the strategies.  The
\* instance passed in is the one run_backtest resets and drives.
run_comparison_step(j) ==
    LET f == run_backtest(j.rounds, j.config, j.strategies[j.i + 1])
    IN  IF f.pc = "raised"
        THEN [j EXCEPT !.pc = "raised"]
        ELSE [j EXCEPT !.i = @ + 1,
                       !.strategies[j.i + 1] = f.strategy,
                       !.results = DictSet(@, name(f.strategy),
                                           The(f.metrics))]

\* engine.py 190.
run_comparison_return(j) == [j EXCEPT !.pc = "done"]

\* Strategies compared: same-named FixedTarget instances that differ in
\* bet_percent as in get_preset_strategies, one of another target, and
\* PatternBased instances, the second of which indexes an empty history.
CompareStrategies ==
    {FixedTargetStrategy(200, 10, 1, 100, 50, 100),
     FixedTargetStrategy(200, 20, 1, 100, 50, 100),
     FixedTargetStrategy(150, 10, 1, 100, 50, 100),
     PatternBasedStrategy(10, 1, 200, 200, 1, 500, 50),
     PatternBasedStrategy(10, 0, 200, 200, 1, 500, 50)}

StrategyLists == UNION {[1..n -> CompareStrategies] : n \in 1..MaxCompare}

CompareInit ==
    /\ job \in {RunComparison(rounds, strategies,
                              BacktestConfig(100, None, None, 0)) :
                    rounds \in GridRoundSeqs, strategies \in StrategyLists}
    /\ run = NoFrame
    /\ twin = NoFrame
    /\ api = NoApi

CompareStep ==
    /\ job.op = "run_comparison"
    /\ job.pc = "loop"
    /\ job.i < Len(job.strategies)
    /\ job' = run_comparison_step(job)
    /\ UNCHANGED <<run, twin, api>>

CompareReturn ==
    /\ job.op = "run_comparison"
    /\ job.pc = "loop"
    /\ job.i = Len(job.strategies)
    /\ job' = run_comparison_return(job)
    /\ UNCHANGED <<run, twin, api>>

CompareNext == CompareStep \/ CompareReturn

SpecCompare == CompareInit /\ [][CompareNext]_vars

----------------------------------------------------------------------------
(* BacktestEngine.walk_forward_test *)

\* seq[k] with a Python index k: negative indices count from the end.
PyIndexRaises(seq, k) == k >= Len(seq) \/ k < 0 - Len(seq)

PyIndex(seq, k) == IF k < 0 THEN seq[Len(seq) + k + 1] ELSE seq[k + 1]

\* engine.py 219-222 for window i; train_ratio is in hundredths.
WindowSize(n_rounds, n_splits) == n_rounds \div n_splits

WindowStart(n_rounds, n_splits, i) == i * WindowSize(n_rounds, n_splits)

WindowEnd(n_rounds, n_splits, i) ==
    Min((i + 1) * WindowSize(n_rounds, n_splits), n_rounds)

TrainEnd(n_rounds, n_splits, train_ratio, i) ==
    WindowStart(n_rounds, n_splits, i)
      + ((WindowEnd(n_rounds, n_splits, i)
            - WindowStart(n_rounds, n_splits, i)) * train_ratio) \div 100

\* A call of walk_forward_test; windows records for each window run the
\* bounds computed and the 0-based indices of the rounds the pass tested.
WalkForward(rounds, strategy_class, strategy_params, n_splits, train_ratio, config) ==
    [op |-> "walk_forward_test", rounds |-> rounds,
     strategy_class |-> strategy_class, strategy_params |-> strategy_params,
     n_splits |-> n_splits, train_ratio |-> train_ratio, config |-> config,
     i |-> 0, results |-> <<>>, windows |-> <<>>, pc |-> "loop"]

\* engine.py 228-234: the configuration of the window's pass.
TestConfig(j, train_end, window_end) ==
    BacktestConfig(j.config.initial_bankroll,
                   Some(PyIndex(j.rounds, train_end).id),
                   IF window_end < Len(j.rounds)
                   THEN Some(PyIndex(j.rounds, window_end - 1).id)
                   ELSE None,
                   0)

\* Whether the body of the loop raises for the window: rounds[train_end]
\* out of range, or the pass itself.
Window_raises(j, train_end, window_end) ==
    IF PyIndexRaises(j.rounds, train_end) THEN TRUE
    ELSE IF New_raises(j.strategy_class, j.strategy_params) THEN TRUE
    ELSE run_backtest(j.rounds, TestConfig(j, train_end, window_end),
                      New(j.strategy_class, j.strategy_params)).pc = "raised"

\* The 0-based indices in engine.rounds of the rounds a pass tested.
Tested(j, f) ==
    {k \in 0..(Len(j.rounds) - 1) :
        \E n \in 1..Len(f.rounds_to_test) :
            f.rounds_to_test[n] = j.rounds[k + 1]}

\* engine.py 219-242: one iteration of the loop over the windows.
walk_forward_step(j) ==
    LET n_rounds == Len(j.rounds)
        window_end == WindowEnd(n_rounds, j.n_splits, j.i)
        train_end == TrainEnd(n_rounds, j.n_splits, j.train_ratio, j.i)
    IN  IF Window_raises(j, train_end, window_end)
        THEN [j EXCEPT !.pc = "raised"]
        ELSE LET f == run_backtest(j.rounds,
                                   TestConfig(j, train_end, window_end),
                                   New(j.strategy_class, j.strategy_params))
             IN  [j EXCEPT !.i = @ + 1,
                           !.results = Append(@, The(f.metrics)),
                           !.windows = Append(@, [train_end |-> train_end,
                                                  window_end |-> window_end,
                                                  tested |-> Tested(j, f),
                                                  strategy |-> f.strategy])]

\* engine.py 247.
walk_forward_return(j) == [j EXCEPT !.pc = "done"]

WalkRoundSeqs == UNION {RoundSeqs(n) : n \in 0..MaxWalkRounds}

\* train_ratio 0, 0.5, 0.7 (the default) and 1.
TrainRatios == {0, 50, 70, 100}

WalkInit ==
    /\ job \in {WalkForward(rounds, "FixedTarget",
                            ZipParams(<<"target", "bet_percent">>, <<200, 10>>),
                            n_splits, train_ratio,
                            BacktestConfig(100, None, None, 0)) :
                    rounds \in WalkRoundSeqs, n_splits \in 1..MaxSplits,
                    train_ratio \in TrainRatios}
    /\ run = NoFrame
    /\ twin = NoFrame
    /\ api = NoApi

WalkStep ==
    /\ job.op = "walk_forward_test"
    /\ job.pc = "loop"
    /\ job.i < job.n_splits
    /\ job' = walk_forward_step(job)
    /\ UNCHANGED <<run, twin, api>>

WalkReturn ==
    /\ job.op = "walk_forward_test"
    /\ job.pc = "loop"
    /\ job.i = job.n_splits
    /\ job' = walk_forward_return(job)
    /\ UNCHANGED <<run, twin, api>>

WalkNext == WalkStep \/ WalkReturn

SpecWalk == WalkInit /\ [][WalkNext]_vars

----------------------------------------------------------------------------
(* BacktestEngine.monte_carlo_simulation *)

\* One pass of the simulation loop body (one resample): the rounds drawn,
\* the index of the inner loop, and where the pass stands: "reset" before
\* lines 293-295, "loop" in the inner loop, "end" before lines 319-323,
\* "done" with its result, or "raised".
Draw(sampled_rounds) ==
    [sampled_rounds |-> sampled_rounds, i |-> 0, pc |-> "reset",
     bankrupt |-> FALSE, result |-> None]

\* A pass together with the strategy object it works on.
OnObject(d, s) == [d |-> d, s |-> s]

\* engine.py 293-295.
draw_reset(p, config) ==
    OnObject([p.d EXCEPT !.i = 0, !.bankrupt = FALSE,
                         !.pc = IF p.d.sampled_rounds = <<>>
                                THEN "end" ELSE "loop"],
             [reset(p.s) EXCEPT !.bankroll = config.initial_bankroll,
                                !.initial_bankroll = config.initial_bankroll])

\* One iteration of the inner loop that goes on after ruin.
draw_round_NoRuinStop(p) ==
    LET current_round == p.d.sampled_rounds[p.d.i + 1]
        round_history == SubSeq(p.d.sampled_rounds, 1, p.d.i)
        next == IF p.d.i + 1 < Len(p.d.sampled_rounds)
                THEN [p.d EXCEPT !.i = @ + 1]
                ELSE [p.d EXCEPT !.pc = "end"]
    IN  IF decide_raises(p.s, round_history)
        THEN OnObject([p.d EXCEPT !.pc = "raised"], p.s)
        ELSE LET r == decide(p.s, round_history)
             IN  IF ~r.d.should_bet
                 THEN OnObject(next, r.s)
                 ELSE LET res == Resolve(r.s, r.d, current_round)
                          s1 == on_round_result(r.s, r.d, current_round,
                                                res.won, res.profit)
                      IN  OnObject(next, s1)

\* engine.py 298-317: one iteration of the inner loop.
draw_round(p) ==
    LET current_round == p.d.sampled_rounds[p.d.i + 1]
        round_history == SubSeq(p.d.sampled_rounds, 1, p.d.i)
        next == IF p.d.i + 1 < Len(p.d.sampled_rounds)
                THEN [p.d EXCEPT !.i = @ + 1]
                ELSE [p.d EXCEPT !.pc = "end"]
    IN  IF decide_raises(p.s, round_history)
        THEN OnObject([p.d EXCEPT !.pc = "raised"], p.s)
        ELSE LET r == decide(p.s, round_history)
             IN  IF ~r.d.should_bet
                 THEN OnObject(next, r.s)
                 ELSE LET res == Resolve(r.s, r.d, current_round)
                          s1 == on_round_result(r.s, r.d, current_round,
                                                res.won, res.profit)
                      IN  IF s1.bankroll <= 0
                          THEN OnObject([p.d EXCEPT !.bankrupt = TRUE,
                                                    !.pc = "end"], s1)
                          ELSE OnObject(next, s1)

\* engine.py 319-323: what the pass contributes, with the trade log the
\* strategy object holds at that point.
draw_end(p, config) ==
    OnObject([p.d EXCEPT
                 !.pc = "done",
                 !.result = Some([final_bankroll |-> IF p.d.bankrupt THEN 0
                                                     ELSE p.s.bankroll,
                                  roi |-> Ratio((p.s.bankroll
                                                   - config.initial_bankroll) * 100,
                                                config.initial_bankroll),
                                  bankrupt |-> p.d.bankrupt,
                                  history |-> p.s.history])],
             p.s)

draw_step(p, config) ==
    CASE p.d.pc = "reset" -> draw_reset(p, config)
      [] p.d.pc = "loop" -> draw_round(p)
      [] p.d.pc = "end" -> draw_end(p, config)
      [] OTHER -> p

\* The pass from start to end with nothing else touching the object.
RECURSIVE DrawLoop(_, _)
DrawLoop(p, config) ==
    IF p.d.pc \in {"done", "raised"} THEN p
    ELSE DrawLoop(draw_step(p, config), config)

\* Sum, smallest and largest of a sequence of integers.
RECURSIVE Sum(_)
Sum(xs) == IF xs = <<>> THEN 0 ELSE xs[1] + Sum(Tail(xs))

\* np.median of a non-empty sequence of integers, as a ratio.
Median(xs) ==
    LET n == Len(xs)
        rank(k) == Cardinality({m \in 1..n : xs[m] < xs[k]
                                             \/ (xs[m] = xs[k] /\ m < k)}) + 1
        at(r) == xs[CHOOSE k \in 1..n : rank(k) = r]
    IN  IF n % 2 = 1 THEN Ratio(at((n + 1) \div 2), 1)
        ELSE Ratio(at(n \div 2) + at(n \div 2 + 1), 2)

\* engine.py 328-342: the statistics returned, those computed with exact
\* arithmetic.  Every roi has the denominator initial_bankroll.
Statistics(j) ==
    LET n == j.n_simulations
        den == j.config.initial_bankroll
        nums == [k \in 1..Len(j.rois) |-> j.rois[k].num]
    IN  [n_simulations |-> n,
         mean_final_bankroll |-> Ratio(Sum(j.final_bankrolls), n),
         median_final_bankroll |-> Median(j.final_bankrolls),
         mean_roi |-> Ratio(Sum(nums), den * n),
         median_roi |-> Ratio(Median(nums).num, Median(nums).den * den),
         min_roi |-> Ratio(SeqMin(nums), den),
         max_roi |-> Ratio(SeqMax(nums), den),
         bankruptcy_rate |-> Ratio(j.bankruptcies * 100, n),
         positive_roi_rate |->
             Ratio(Cardinality({k \in 1..Len(nums) : nums[k] > 0}) * 100, n)]

\* A call of monte_carlo_simulation (engine.py 272-282): sample_size
\* defaults to the number of rounds after the warmup.  call_no counts the
\* invocations made with these arguments and first keeps the statistics of
\* the first one.
MonteCarlo(rounds, strategy, n_simulations, sample_size, config) ==
    [op |-> "monte_carlo_simulation", rounds |-> rounds,
     strategy |-> strategy, n_simulations |-> n_simulations,
     given_sample_size |-> sample_size,
     sample_size |-> IF sample_size = None
                     THEN Len(rounds) - config.warmup_rounds
                     ELSE The(sample_size),
     config |-> config,
     rounds_array |-> SubSeq(rounds, config.warmup_rounds + 1, Len(rounds)),
     sim |-> 0, final_bankrolls |-> <<>>, rois |-> <<>>, bankruptcies |-> 0,
     draws |-> <<>>, stats |-> None, call_no |-> 1, first |-> None,
     pc |-> "loop"]

\* np.random.choice(len(rounds_array), size=sample_size, replace=True)
\* raises ValueError for a negative size, and for an empty population
\* unless no sample is taken.
choice_raises(j) ==
    \/ j.sample_size < 0
    \/ (Len(j.rounds_array) = 0 /\ j.sample_size > 0)

\* The index vectors np.random.choice can return.  The generator is the
\* process-wide one; nothing in the call or its callers seeds it.
Choices(j) == [1..j.sample_size -> 0..(Len(j.rounds_array) - 1)]

\* engine.py 283-323: one simulation, sampled_indices being the draw.
monte_carlo_sim(j, sampled_indices) ==
    LET sampled_rounds == [k \in 1..Len(sampled_indices) |->
                              j.rounds_array[sampled_indices[k] + 1]]
        p == DrawLoop(OnObject(Draw(sampled_rounds), j.strategy), j.config)
    IN  IF p.d.pc = "raised"
        THEN [j EXCEPT !.strategy = p.s, !.pc = "raised"]
        ELSE [j EXCEPT !.strategy = p.s,
                       !.sim = @ + 1,
                       !.draws = Append(@, sampled_indices),
                       !.final_bankrolls =
                           Append(@, The(p.d.result).final_bankroll),
                       !.rois = Append(@, The(p.d.result).roi),
                       !.bankruptcies =
                           IF p.d.bankrupt THEN @ + 1 ELSE @]

\* engine.py 328-342.
monte_carlo_return(j) == [j EXCEPT !.stats = Some(Statistics(j)), !.pc = "done"]

\* A second invocation with the same strategy object, config,
\* n_simulations and sample_size on the same engine.
monte_carlo_again(j) ==
    [MonteCarlo(j.rounds, j.strategy, j.n_simulations, j.given_sample_size,
                j.config)
        EXCEPT !.call_no = 2, !.first = j.stats]

McRoundSeqs == UNION {RoundSeqs(n) : n \in 0..MaxDrawRounds}

\* FixedTarget staking half and all of the bankroll (the second can be
\* ruined by one loss), and a Martingale.
McStrategies ==
    {FixedTargetStrategy(200, 50, 1, 100, 50, 100),
     FixedTargetStrategy(200, 100, 1, 100, 90, 100),
     MartingaleStrategy(200, 10, 200, 4, 50)}

McConfigs ==
    {BacktestConfig(100, None, None, warmup_rounds) : warmup_rounds \in {0, 1}}

McInit ==
    /\ job \in {MonteCarlo(rounds, strategy, n_simulations, sample_size, config) :
                    rounds \in McRoundSeqs, strategy \in McStrategies,
                    n_simulations \in 1..MaxSims,
                    sample_size \in {None} \cup {Some(n) : n \in 0..MaxDrawRounds},
                    config \in McConfigs}
    /\ run = NoFrame
    /\ twin = NoFrame
    /\ api = NoApi

McSim ==
    /\ job.op = "monte_carlo_simulation"
    /\ job.pc = "loop"
    /\ job.sim < job.n_simulations
    /\ ~choice_raises(job)
    /\ \E sampled_indices \in Choices(job) :
          job' = monte_carlo_sim(job, sampled_indices)
    /\ UNCHANGED <<run, twin, api>>

McChoiceRaises ==
    /\ job.op = "monte_carlo_simulation"
    /\ job.pc = "loop"
    /\ job.sim < job.n_simulations
    /\ choice_raises(job)
    /\ job' = [job EXCEPT !.pc = "raised"]
    /\ UNCHANGED <<run, twin, api>>

McReturn ==
    /\ job.op = "monte_carlo_simulation"
    /\ job.pc = "loop"
    /\ job.sim = job.n_simulations
    /\ job' = monte_carlo_return(job)
    /\ UNCHANGED <<run, twin, api>>

McAgain ==
    /\ job.op = "monte_carlo_simulation"
    /\ job.pc = "done"
    /\ job.call_no = 1
    /\ job' = monte_carlo_again(job)
    /\ UNCHANGED <<run, twin, api>>

McNext == McSim \/ McChoiceRaises \/ McReturn \/ McAgain

SpecMc == McInit /\ [][McNext]_vars

----------------------------------------------------------------------------
(* Two independent runs of one driver, their steps taken in any order.     *)
(* Two simulations of monte_carlo_simulation work on the one strategy      *)
(* object passed to the call (engine.py 293-317); two combinations of      *)
(* grid_search each work on the object built for them (optimizer.py 58).   *)

\* The rounds the engine holds for the two simulations.
DrawRounds == MkRounds(<<110, 250>>)

Samples ==
    UNION {[1..n -> 0..(Len(DrawRounds) - 1)] : n \in 0..MaxSample}

Sampled(sampled_indices) ==
    [k \in 1..Len(sampled_indices) |-> DrawRounds[sampled_indices[k] + 1]]

\* Simulations a and b of a monte_carlo_simulation call on strategy.
TwoDraws(strategy, config, indices_a, indices_b) ==
    [op |-> "two_runs", driver |-> "monte_carlo_simulation",
     config |-> config, start |-> strategy, object |-> strategy,
     a |-> Draw(Sampled(indices_a)), b |-> Draw(Sampled(indices_b))]

\* Combinations a and b of a grid_search call, each with the strategy
\* constructed for it.
TwoCombos(rounds, strategy_class, params_a, params_b, config) ==
    [op |-> "two_runs", driver |-> "grid_search", config |-> config,
     a |-> Frame(rounds, config, New(strategy_class, params_a)),
     b |-> Frame(rounds, config, New(strategy_class, params_b))]

SampleRoundSeqs == UNION {RoundSeqs(n) : n \in 0..MaxSample}

ComboParams ==
    {ZipParams(<<"target", "bet_percent">>, <<target, 50>>) :
        target \in {200, 250}}

TwoInit ==
    /\ job \in {TwoDraws(strategy, BacktestConfig(100, None, None, 0), a, b) :
                    strategy \in McStrategies, a \in Samples, b \in Samples}
             \cup
             {TwoCombos(rounds, "FixedTarget", a, b,
                        BacktestConfig(100, None, None, 0)) :
                    rounds \in SampleRoundSeqs,
                    a \in ComboParams, b \in ComboParams}
    /\ run = NoFrame
    /\ twin = NoFrame
    /\ api = NoApi

\* One step of run a.
StepA ==
    /\ job.op = "two_runs"
    /\ job.a.pc \notin {"done", "raised"}
    /\ job' = IF job.driver = "monte_carlo_simulation"
              THEN LET p == draw_step(OnObject(job.a, job.object), job.config)
                   IN  [job EXCEPT !.a = p.d, !.object = p.s]
              ELSE [job EXCEPT !.a = Step(@)]
    /\ UNCHANGED <<run, twin, api>>

\* One step of run b.
StepB ==
    /\ job.op = "two_runs"
    /\ job.b.pc \notin {"done", "raised"}
    /\ job' = IF job.driver = "monte_carlo_simulation"
              THEN LET p == draw_step(OnObject(job.b, job.object), job.config)
                   IN  [job EXCEPT !.b = p.d, !.object = p.s]
              ELSE [job EXCEPT !.b = Step(@)]
    /\ UNCHANGED <<run, twin, api>>

TwoNext == StepA \/ StepB

SpecTwo == TwoInit /\ [][TwoNext]_vars

----------------------------------------------------------------------------
(* Specification of the two loops on one sample: the loop of run_backtest  *)
(* (run) and the loop of one simulation of monte_carlo_simulation (job),   *)
(* each on its own strategy object constructed alike, given the same       *)
(* rounds.  A sample is drawn with replacement: a round can occur twice.   *)

\* A simulation on its own: the pass and the calls it has made, recorded as
\* run_backtest's are.
Pass(sampled_rounds, strategy, config) ==
    [op |-> "draw", p |-> OnObject(Draw(sampled_rounds), strategy),
     config |-> config, calls |-> <<>>]

\* The calls of decide and on_round_result one iteration of the inner loop
\* makes.
DrawCalls(p) ==
    LET current_round == p.d.sampled_rounds[p.d.i + 1]
        round_history == SubSeq(p.d.sampled_rounds, 1, p.d.i)
        r == decide(p.s, round_history)
        decided == [op |-> "decide", idx |-> p.d.i,
                    history |-> round_history, decision |-> r.d,
                    bankroll_before |-> p.s.bankroll,
                    bankroll_after |-> r.s.bankroll,
                    trades_before |-> Len(p.s.history),
                    trades_after |-> Len(r.s.history)]
    IN  IF decide_raises(p.s, round_history) THEN <<>>
        ELSE IF ~r.d.should_bet THEN <<decided>>
        ELSE LET res == Resolve(r.s, r.d, current_round)
                 s1 == on_round_result(r.s, r.d, current_round,
                                       res.won, res.profit)
             IN  <<decided,
                   [op |-> "on_round_result", idx |-> p.d.i,
                    decision |-> r.d, won |-> res.won, profit |-> res.profit,
                    bankroll_before |-> r.s.bankroll,
                    bankroll_after |-> s1.bankroll,
                    trades_before |-> Len(r.s.history),
                    trades_after |-> Len(s1.history)]>>

PassRounds == {RoundData(11, 110), RoundData(13, 250), RoundData(15, 600)}

PassSamples == UNION {[1..n -> PassRounds] : n \in 0..MaxPassRounds}

\* Strategies that can be ruined by one loss or by two, that decline on a
\* threshold, that resolve two legs, and one whose decide raises on the
\* empty history.
PassStrategies ==
    {FixedTargetStrategy(200, 100, 1, 100, 150, 100),
     FixedTargetStrategy(200, 50, 50, 100, 150, 100),
     FixedTargetStrategy(200, 30, 1, 100, 50, 50),
     MartingaleStrategy(200, 30, 200, 4, 50),
     SafetyFirstStrategy(150, 300, 70, 30, 50, 100),
     PatternBasedStrategy(100, 1, 200, 200, 0, 500, 150),
     PatternBasedStrategy(10, 0, 200, 200, 1, 500, 50)}

PassInit ==
    /\ \E sampled_rounds \in PassSamples, strategy \in PassStrategies :
          LET config == BacktestConfig(100, None, None, 0)
          IN  /\ run = Frame(sampled_rounds, config, strategy)
              /\ job = Pass(sampled_rounds, strategy, config)
    /\ twin = NoFrame
    /\ api = NoApi

DrawStep ==
    /\ job.op = "draw"
    /\ job.p.d.pc \in {"reset", "loop", "end"}
    /\ job' = [job EXCEPT !.p = draw_step(@, job.config),
                          !.calls = IF job.p.d.pc = "loop"
                                    THEN @ \o DrawCalls(job.p) ELSE @]
    /\ UNCHANGED <<run, twin, api>>

PassNext == Begin \/ Decide \/ Bet \/ Check \/ DrawStep

SpecPass == PassInit /\ [][PassNext]_vars

----------------------------------------------------------------------------
(* optimizer.optimize_strategy                                             *)
(*                                                                         *)
(* np.random draws a value for each parameter in every iteration; a draw   *)
(* is a choice among the values of the range.                              *)

\* A range of param_ranges: name, (min_val, max_val), and whether both
\* bounds are ints.
ParamRange(param_name, min_val, max_val, is_int) ==
    [name |-> param_name, min_val |-> min_val, max_val |-> max_val, is_int |-> is_int]

\* optimizer.py 129-134: np.random.randint(min_val, max_val + 1) for ints,
\* np.random.uniform(min_val, max_val) otherwise (of the floats of the
\* range, those on a grid of 0.5).
RangeValues(r) ==
    IF r.is_int THEN r.min_val..r.max_val
    ELSE IF r.min_val = r.max_val THEN {r.min_val}
    ELSE {v \in r.min_val..(r.max_val - 1) : v % 50 = 0}

\* The parameter vectors an iteration can draw.
SampledParams(param_ranges) ==
    {params \in [{param_ranges[k].name : k \in 1..Len(param_ranges)}
                    -> UNION {RangeValues(param_ranges[k]) : k \in 1..Len(param_ranges)}] :
        \A k \in 1..Len(param_ranges) :
           params[param_ranges[k].name] \in RangeValues(param_ranges[k])}

\* A call of optimize_strategy: the arguments, the loop index i, the best
\* so far, and trials, a record of what each iteration drew and got.
OptimizeStrategy(rounds, strategy_class, param_ranges, config, metric, n_iterations) ==
    [op |-> "optimize_strategy", rounds |-> rounds,
     strategy_class |-> strategy_class, param_ranges |-> param_ranges,
     config |-> config, metric |-> metric, n_iterations |-> n_iterations,
     i |-> 0, best_params |-> None, best_metrics |-> None,
     best_value |-> NegInfinity, trials |-> <<>>, pc |-> "loop",
     result |-> None]

\* One iteration that also takes a value equal to the best so far.
optimize_strategy_step_TakesTies(j, params) ==
    IF Combo_raises(j, params)
    THEN [j EXCEPT !.i = @ + 1,
                   !.trials = Append(@, [params |-> params, raised |-> TRUE])]
    ELSE LET f == run_backtest(j.rounds, j.config, New(j.strategy_class, params))
             metrics == The(f.metrics)
             value == get_metric([metrics |-> metrics], j.metric)
             trial == [params |-> params, raised |-> FALSE,
                       metrics |-> metrics, value |-> value]
         IN  IF InfRank(value) = 0 /\ ~RatioLess(value, j.best_value)
             THEN [j EXCEPT !.i = @ + 1, !.trials = Append(@, trial),
                            !.best_value = value,
                            !.best_params = Some(params),
                            !.best_metrics = Some(metrics)]
             ELSE [j EXCEPT !.i = @ + 1, !.trials = Append(@, trial)]

\* optimizer.py 127-154: one iteration of the search with the parameters
\* it drew.
optimize_strategy_step(j, params) ==
    IF Combo_raises(j, params)
    THEN [j EXCEPT !.i = @ + 1,
                   !.trials = Append(@, [params |-> params, raised |-> TRUE])]
    ELSE LET f == run_backtest(j.rounds, j.config, New(j.strategy_class, params))
             metrics == The(f.metrics)
             value == get_metric([metrics |-> metrics], j.metric)
             trial == [params |-> params, raised |-> FALSE,
                       metrics |-> metrics, value |-> value]
         IN  IF InfRank(value) = 0 /\ RatioLess(j.best_value, value)
             THEN [j EXCEPT !.i = @ + 1, !.trials = Append(@, trial),
                            !.best_value = value,
                            !.best_params = Some(params),
                            !.best_metrics = Some(metrics)]
             ELSE [j EXCEPT !.i = @ + 1, !.trials = Append(@, trial)]

\* optimizer.py 156: return best_params, best_metrics.
optimize_strategy_return(j) ==
    [j EXCEPT !.result = Some(<<j.best_params, j.best_metrics>>), !.pc = "done"]

OptRoundSeqs == UNION {RoundSeqs(n) : n \in 0..MaxOptRounds}

\* Searches: over the target of FixedTarget, over the streak length of
\* PatternBased (a length of 0 makes decide raise on the empty history),
\* and with a keyword the class does not take.
ParamRangeSets ==
    {[strategy_class |-> "FixedTarget",
      param_ranges |-> <<ParamRange("target", 150, 300, FALSE),
                         ParamRange("bet_percent", 10, 10, FALSE)>>],
     [strategy_class |-> "PatternBased",
      param_ranges |-> <<ParamRange("min_streak_to_bet", 0, 2, TRUE),
                         ParamRange("bet_percent", 10, 10, FALSE)>>],
     [strategy_class |-> "FixedTarget",
      param_ranges |-> <<ParamRange("cashout", 150, 200, FALSE)>>]}

OptInit ==
    /\ job \in {OptimizeStrategy(rounds, g.strategy_class, g.param_ranges,
                                 BacktestConfig(100, None, None, 0), metric,
                                 n_iterations) :
                    rounds \in OptRoundSeqs, g \in ParamRangeSets,
                    metric \in {"roi_percent", "profit_factor", "win_streak"},
                    n_iterations \in 0..MaxIterations}
    /\ run = NoFrame
    /\ twin = NoFrame
    /\ api = NoApi

OptStep ==
    /\ job.op = "optimize_strategy"
    /\ job.pc = "loop"
    /\ job.i < job.n_iterations
    /\ \E params \in SampledParams(job.param_ranges) :
          job' = optimize_strategy_step(job, params)
    /\ UNCHANGED <<run, twin, api>>

OptReturn ==
    /\ job.op = "optimize_strategy"
    /\ job.pc = "loop"
    /\ job.i = job.n_iterations
    /\ job' = optimize_strategy_return(job)
    /\ UNCHANGED <<run, twin, api>>

OptNext == OptStep \/ OptReturn

SpecOpt == OptInit /\ [][OptNext]_vars

----------------------------------------------------------------------------
(* optimizer.sensitivity_analysis                                          *)

\* getattr(metrics, metric, 0).
getattr_metric(metrics, metric) ==
    IF metric \in DOMAIN metrics THEN metrics[metric] ELSE 0

\* base_params.copy() with params[param_to_vary] = value.
VariedParams(base_params, param_to_vary, value) ==
    [n \in DOMAIN base_params \cup {param_to_vary} |->
        IF n = param_to_vary THEN value ELSE base_params[n]]

\* results = {param_to_vary: values}, then results[metric] = [] for each
\* tracked metric in turn.
RECURSIVE EmptyResults(_, _)
EmptyResults(results, metrics_to_track) ==
    IF metrics_to_track = <<>> THEN results
    ELSE LET metric == Head(metrics_to_track)
         IN  EmptyResults([n \in DOMAIN results \cup {metric} |->
                              IF n = metric THEN <<>> ELSE results[n]],
                          Tail(metrics_to_track))

\* The names of a list of metrics.
Names(metrics_to_track) ==
    {metrics_to_track[m] : m \in 1..Len(metrics_to_track)}

\* results[metric].append(entry[metric]) for each tracked metric in turn.
RECURSIVE AppendEach(_, _, _)
AppendEach(results, metrics_to_track, entry) ==
    IF metrics_to_track = <<>> THEN results
    ELSE LET metric == Head(metrics_to_track)
         IN  AppendEach([results EXCEPT ![metric] = Append(@, entry[metric])],
                        Tail(metrics_to_track), entry)

\* A call of sensitivity_analysis: base_params is the caller's dictionary,
\* given is what it held at the call.
SensitivityAnalysis(rounds, strategy_class, base_params, param_to_vary, values, config, metrics_to_track) ==
    [op |-> "sensitivity_analysis", rounds |-> rounds,
     strategy_class |-> strategy_class, base_params |-> base_params,
     given |-> base_params, param_to_vary |-> param_to_vary,
     values |-> values, config |-> config,
     metrics_to_track |-> metrics_to_track, i |-> 0,
     results |-> EmptyResults([n \in {param_to_vary} |-> values],
                              metrics_to_track),
     pc |-> "loop", result |-> None]

\* One value of the analysis, a failed value leaving no entry.
sensitivity_analysis_step_DropsFailures(j) ==
    LET value == j.values[j.i + 1]
        params == VariedParams(j.base_params, j.param_to_vary, value)
    IN  IF Combo_raises(j, params)
        THEN [j EXCEPT !.i = @ + 1]
        ELSE LET f == run_backtest(j.rounds, j.config,
                                   New(j.strategy_class, params))
                 metrics == The(f.metrics)
             IN  [j EXCEPT !.i = @ + 1,
                           !.results = AppendEach(@, j.metrics_to_track,
                                          [metric \in Names(j.metrics_to_track) |->
                                              getattr_metric(metrics, metric)])]

\* optimizer.py 193-207: one value of the analysis.
sensitivity_analysis_step(j) ==
    LET value == j.values[j.i + 1]
        params == VariedParams(j.base_params, j.param_to_vary, value)
    IN  IF Combo_raises(j, params)
        THEN [j EXCEPT !.i = @ + 1,
                       !.results = AppendEach(@, j.metrics_to_track,
                                              [metric \in Names(j.metrics_to_track) |-> 0])]
        ELSE LET f == run_backtest(j.rounds, j.config,
                                   New(j.strategy_class, params))
                 metrics == The(f.metrics)
             IN  [j EXCEPT !.i = @ + 1,
                           !.results = AppendEach(@, j.metrics_to_track,
                                          [metric \in Names(j.metrics_to_track) |->
                                              getattr_metric(metrics, metric)])]

\* optimizer.py 209: return results.
sensitivity_analysis_return(j) ==
    [j EXCEPT !.result = Some(j.results), !.pc = "done"]

SensRoundSeqs == UNION {RoundSeqs(n) : n \in 0..MaxSensRounds}

\* Analyses: of the target of FixedTarget (given or not in base_params),
\* of the streak length of PatternBased (a length of 0 makes decide raise
\* on the empty history), and of a keyword the class does not take.
Analyses ==
    {[strategy_class |-> "FixedTarget",
      base_params |-> [n \in {"bet_percent", "target"} |->
                          IF n = "target" THEN 200 ELSE 10],
      param_to_vary |-> "target", among |-> {150, 200, 300}],
     [strategy_class |-> "FixedTarget",
      base_params |-> [n \in {"bet_percent"} |-> 10],
      param_to_vary |-> "target", among |-> {150, 200, 300}],
     [strategy_class |-> "PatternBased",
      base_params |-> [n \in {"bet_percent", "min_streak_to_bet"} |->
                          IF n = "bet_percent" THEN 10 ELSE 1],
      param_to_vary |-> "min_streak_to_bet", among |-> {0, 1, 2}],
     [strategy_class |-> "FixedTarget",
      base_params |-> [n \in {"bet_percent"} |-> 10],
      param_to_vary |-> "cashout", among |-> {150, 200}]}

TrackedMetrics ==
    {<<"roi_percent", "max_drawdown_percent">>, <<"profit_factor">>,
     <<"rounds_bet", "no_such_metric", "total_profit">>, <<>>}

SensInit ==
    /\ \E a \in Analyses :
          job \in {SensitivityAnalysis(rounds, a.strategy_class, a.base_params,
                                       a.param_to_vary, values,
                                       BacktestConfig(100, None, None, 0),
                                       metrics_to_track) :
                      rounds \in SensRoundSeqs,
                      values \in UNION {[1..n -> a.among] : n \in 0..MaxValues},
                      metrics_to_track \in TrackedMetrics}
    /\ run = NoFrame
    /\ twin = NoFrame
    /\ api = NoApi

SensStep ==
    /\ job.op = "sensitivity_analysis"
    /\ job.pc = "loop"
    /\ job.i < Len(job.values)
    /\ job' = sensitivity_analysis_step(job)
    /\ UNCHANGED <<run, twin, api>>

SensReturn ==
    /\ job.op = "sensitivity_analysis"
    /\ job.pc = "loop"
    /\ job.i = Len(job.values)
    /\ job' = sensitivity_analysis_return(job)
    /\ UNCHANGED <<run, twin, api>>

SensNext == SensStep \/ SensReturn

SpecSens == SensInit /\ [][SensNext]_vars

----------------------------------------------------------------------------
(* Specification of calculate_metrics as a function of the trade log: the  *)
(* log is any sequence of settled bets, each record carrying the bankroll  *)
(* after it; the one action is the call.                                   *)

\* How a bet can end: bet_amount, target, multiplier, won, profit.  A bet
\* won at a target of 1.0x has a profit of 0.
Outcomes ==
    {[bet_amount |-> 20, target |-> 200, multiplier |-> 250, won |-> TRUE, profit |-> 20],
     [bet_amount |-> 30, target |-> 200, multiplier |-> 250, won |-> TRUE, profit |-> 30],
     [bet_amount |-> 10, target |-> 100, multiplier |-> 110, won |-> TRUE, profit |-> 0],
     [bet_amount |-> 10, target |-> 200, multiplier |-> 110, won |-> FALSE, profit |-> 0 - 10],
     [bet_amount |-> 30, target |-> 200, multiplier |-> 110, won |-> FALSE, profit |-> 0 - 30]}

\* The trade log of a sequence of outcomes on the rounds 11, 13, ...: the
\* records Strategy.on_round_result appends, from the given bankroll.
RECURSIVE TradeLog(_, _, _)
TradeLog(outcomes, bankroll, k) ==
    IF outcomes = <<>> THEN <<>>
    ELSE LET o == outcomes[1]
         IN  <<TradeRecord(RoundData(9 + 2 * k, o.multiplier),
                           BetDecision(TRUE, o.bet_amount, o.target, "bet"),
                           o.won, o.profit, bankroll + o.profit)>>
             \o TradeLog(Tail(outcomes), bankroll + o.profit, k + 1)

TradeLogs ==
    UNION {{TradeLog(outcomes, 200, 1) : outcomes \in [1..n -> Outcomes]} : n \in 0..MaxTrades}

MetricsCall(history, initial_bankroll, total_rounds) ==
    [op |-> "calculate_metrics", history |-> history,
     initial_bankroll |-> initial_bankroll, total_rounds |-> total_rounds,
     pc |-> "call", report |-> None]

MetricsInit ==
    /\ job \in {MetricsCall(history, 200, Len(history) + 1) : history \in TradeLogs}
    /\ run = NoFrame
    /\ twin = NoFrame
    /\ api = NoApi

MetricsReturn ==
    /\ job.op = "calculate_metrics"
    /\ job.pc = "call"
    /\ job' = [job EXCEPT !.report = Some(calculate_metrics(job.history,
                                                            job.initial_bankroll,
                                                            job.total_rounds)),
                          !.pc = "returned"]
    /\ UNCHANGED <<run, twin, api>>

MetricsNext == MetricsReturn

SpecMetrics == MetricsInit /\ [][MetricsNext]_vars

----------------------------------------------------------------------------
(* Properties *)

IsPrefix(a, b) == Len(a) <= Len(b) /\ SubSeq(b, 1, Len(a)) = a

IsDecide(call) == call.op = "decide"

IsResult(call) == call.op = "on_round_result"

SameChoice(d1, d2) ==
    /\ d1.should_bet = d2.should_bet
    /\ d1.bet_amount = d2.bet_amount
    /\ d1.cashout_target = d2.cashout_target

\* C1 (no lookahead).  Every decide call of run_backtest at index i of the
\* filtered post-warmup slice receives exactly the rounds at indices 0..i-1
\* of that slice; and when two runs of the same strategy and config work on
\* round sequences whose slices agree on their first i rounds, the decisions
\* taken at index i have the same should_bet, bet_amount and cashout_target,
\* whatever the rounds at index i and later are.
C1_NoLookahead ==
    /\ \A f \in {run, twin} : \A k \in 1..Len(f.calls) :
          IsDecide(f.calls[k]) =>
             /\ Len(f.calls[k].history) = f.calls[k].idx
             /\ \A j \in 1..f.calls[k].idx :
                   f.calls[k].history[j] = f.rounds_to_test[j]
    /\ \A k1 \in 1..Len(run.calls), k2 \in 1..Len(twin.calls) :
          LET c1 == run.calls[k1]
              c2 == twin.calls[k2]
          IN  (/\ IsDecide(c1) /\ IsDecide(c2)
               /\ c1.idx = c2.idx
               /\ \A j \in 1..c1.idx : run.rounds_to_test[j] = twin.rounds_to_test[j])
              => SameChoice(c1.decision, c2.decision)

\* C1 witness: both runs have bet at index 2 after the same first two rounds
\* although their rounds at index 2 differ.
C1_Witness ==
    /\ run.pc = "done" /\ twin.pc = "done"
    /\ Len(run.rounds_to_test) >= 3 /\ Len(twin.rounds_to_test) >= 3
    /\ SubSeq(run.rounds_to_test, 1, 2) = SubSeq(twin.rounds_to_test, 1, 2)
    /\ run.rounds_to_test[3] # twin.rounds_to_test[3]
    /\ \E k1 \in 1..Len(run.calls), k2 \in 1..Len(twin.calls) :
          /\ IsDecide(run.calls[k1]) /\ IsDecide(twin.calls[k2])
          /\ run.calls[k1].idx = 2 /\ twin.calls[k2].idx = 2
          /\ run.calls[k1].decision.should_bet
          /\ twin.calls[k2].decision.should_bet

\* C2 (exactly-once update).  In run_backtest on_round_result is called for
\* a round iff the decide call for that round returned should_bet, directly
\* after it and once; each such call appends one trade record and adds
\* exactly the resolved profit to the bankroll; a decide call, and so a
\* round that is not bet on, changes neither the bankroll nor the trade log.
C2_ExactlyOnceUpdate ==
    LET c == run.calls
        n == Len(c)
    IN  /\ \A k \in 1..n :
              /\ IsDecide(c[k]) =>
                    /\ c[k].bankroll_after = c[k].bankroll_before
                    /\ c[k].trades_after = c[k].trades_before
                    /\ IF c[k].decision.should_bet
                       THEN IF k = n THEN run.pc = "bet"
                            ELSE IsResult(c[k + 1]) /\ c[k + 1].idx = c[k].idx
                       ELSE k < n => IsDecide(c[k + 1]) /\ c[k + 1].idx = c[k].idx + 1
              /\ IsResult(c[k]) =>
                    /\ k > 1
                    /\ IsDecide(c[k - 1])
                    /\ c[k - 1].idx = c[k].idx
                    /\ c[k - 1].decision.should_bet
                    /\ c[k].trades_after = c[k].trades_before + 1
                    /\ c[k].bankroll_after = c[k].bankroll_before + c[k].profit
                    /\ k < n => IsDecide(c[k + 1]) /\ c[k + 1].idx = c[k].idx + 1
              /\ k < n => /\ c[k + 1].bankroll_before = c[k].bankroll_after
                          /\ c[k + 1].trades_before = c[k].trades_after
        /\ n > 0 /\ run.pc # "idle" =>
              /\ run.strategy.bankroll = c[n].bankroll_after
              /\ Len(run.strategy.history) = c[n].trades_after

\* C2 witness: a finished run in which one round was bet on and another was
\* declined.
C2_Witness ==
    /\ run.pc = "done"
    /\ \E k \in 1..Len(run.calls) : IsResult(run.calls[k])
    /\ \E k \in 1..Len(run.calls) :
          IsDecide(run.calls[k]) /\ ~run.calls[k].decision.should_bet

\* C3 (ruin is terminal).  In run_backtest a call that leaves the bankroll
\* <= 0 is the last call made on the strategy: the loop is never at a decide
\* or at a bet with a bankroll <= 0.  The run returns a report, and when it
\* stopped on ruin before the last round, rounds_bet is smaller than the
\* number of filtered rounds.
C3_RuinIsTerminal ==
    /\ \A k \in 1..(Len(run.calls) - 1) : run.calls[k].bankroll_after > 0
    /\ run.pc \in {"decide", "bet"} => run.strategy.bankroll > 0
    /\ run.pc = "done" =>
          /\ run.metrics # None
          /\ The(run.metrics).rounds_bet = Len(run.strategy.history)
          /\ (run.strategy.bankroll <= 0 /\ run.i + 1 < Len(run.rounds_to_test))
                => The(run.metrics).rounds_bet < Len(run.rounds_to_test)

\* C3 witness: a run that ended on ruin before its last round.
C3_Witness ==
    /\ run.pc = "done"
    /\ run.strategy.bankroll <= 0
    /\ run.i + 1 < Len(run.rounds_to_test)
    /\ Len(run.strategy.history) >= 1

\* C4 (bankroll persisted non-negative).  Every bankroll written to the trade
\* log during run_backtest is >= 0, for every strategy and parameter
\* setting: no bet exceeds the bankroll held when it is placed.
C4_BankrollNonNegative ==
    /\ \A k \in 1..Len(run.strategy.history) : run.strategy.history[k].bankroll >= 0
    /\ \A k \in 1..Len(run.calls) :
          IsResult(run.calls[k]) =>
             run.calls[k].decision.bet_amount <= run.calls[k].bankroll_before

\* C5 (streak counters).  Whatever reset, decide and on_round_result calls
\* are made on a strategy, consecutive_wins and consecutive_losses are never
\* both nonzero; a won bet increments consecutive_wins and zeroes
\* consecutive_losses, a lost bet does the opposite.
C5_StreaksExclusive ==
    /\ ~(api.strategy.consecutive_wins # 0 /\ api.strategy.consecutive_losses # 0)
    /\ (IsResult(api.last) /\ api.last.decision.should_bet) =>
          IF api.last.won
          THEN /\ api.strategy.consecutive_wins = api.last.before.consecutive_wins + 1
               /\ api.strategy.consecutive_losses = 0
          ELSE /\ api.strategy.consecutive_losses = api.last.before.consecutive_losses + 1
               /\ api.strategy.consecutive_wins = 0

\* C5 witness: a won bet recorded on a strategy that was on a losing streak.
C5_Witness ==
    /\ IsResult(api.last)
    /\ api.last.decision.should_bet
    /\ api.last.won
    /\ api.last.before.consecutive_losses > 0
    /\ api.strategy.consecutive_wins = 1

\* C6 (trade log and counters).  During a run the length of the trade log
\* equals total_bets and total_wins equals the number of records with won;
\* between resets the trade log only grows by appending.
C6_TradeLogCounts ==
    /\ Len(run.strategy.history) = run.strategy.total_bets
    /\ run.strategy.total_wins =
          Cardinality({k \in 1..Len(run.strategy.history) : run.strategy.history[k].won})
    /\ [][/\ Len(run.strategy.history') = run.strategy.total_bets'
          /\ run.strategy.total_wins' =
                Cardinality({k \in 1..Len(run.strategy.history') :
                                run.strategy.history'[k].won})
          /\ run.pc \in {"decide", "bet", "check"} =>
                IsPrefix(run.strategy.history, run.strategy.history')]_vars

\* C6 witness: a trade log with a won and a lost record.
C6_Witness ==
    /\ \E k \in 1..Len(run.strategy.history) : run.strategy.history[k].won
    /\ \E k \in 1..Len(run.strategy.history) : ~run.strategy.history[k].won

\* The strategy object as run_backtest leaves it before the first round:
\* the constructed object with the bankroll of the config.
AtStart(f) ==
    [f.constructed EXCEPT !.bankroll = f.config.initial_bankroll,
                          !.initial_bankroll = f.config.initial_bankroll]

\* C7 (repeated runs).  run_backtest called twice with the same config on
\* the same rounds returns the same report (from the same trade log), with
\* a newly constructed strategy of the same parameters and with the same
\* strategy object reused: at the start of each run reset and the bankroll
\* assignments have put every field of the strategy, the variant-specific
\* ones included, at its value in a newly constructed object.
C7_RepeatedRunsAgree ==
    /\ (run.pc \in {"decide", "done"} /\ run.calls = <<>>) =>
          run.strategy = AtStart(run)
    /\ (run.run_no = 2 /\ run.pc = "done") =>
          /\ The(run.metrics) = The(run.first).metrics
          /\ run.strategy.history = The(run.first).history

\* C7 witness: a second run on the reused strategy object has finished with
\* at least two trades, one of them lost.
C7_Witness ==
    /\ run.run_no = 2
    /\ run.reused
    /\ run.pc = "done"
    /\ Len(run.strategy.history) >= 2
    /\ \E k \in 1..Len(run.strategy.history) : ~run.strategy.history[k].won
    /\ run.strategy # AtStart(run)

\* The fields of a strategy that differ between two states of the object.
Changed(s1, s2) == {k \in DOMAIN s1 : s1[k] # s2[k]}

PureKinds == {"FixedTarget", "AdaptiveTarget", "HybridML", "SafetyFirst"}

\* C8 as claimed (decide is pure).  A decide call leaves every field of the
\* strategy unchanged, for every variant, so two consecutive decide calls
\* with the same history return the same BetDecision.
C8_DecideIsPure ==
    IsDecide(api.last) =>
       /\ api.strategy = api.last.before
       /\ (IsDecide(api.prev) /\ api.prev.history = api.last.history) =>
             api.prev.decision = api.last.decision

\* C8 as amended (what decide leaves alone).  A decide call never changes
\* the bankroll, the trade log, total_bets, total_wins or a parameter.  For
\* FixedTarget, AdaptiveTarget, HybridML and SafetyFirst it changes no field
\* at all; Martingale may change current_bet and consecutive_losses,
\* AntiMartingale current_bet and consecutive_wins, PatternBased
\* wait_counter and SkipLow rounds_to_skip.  Two consecutive decide calls
\* with the same history return the same BetDecision for every variant but
\* PatternBased and SkipLow.
C8_DecideFrame ==
    IsDecide(api.last) =>
       LET kind == api.strategy.kind
           changed == Changed(api.last.before, api.strategy)
       IN  /\ DOMAIN api.strategy = DOMAIN api.last.before
           /\ kind \in PureKinds => changed = {}
           /\ kind = "Martingale" => changed \subseteq {"current_bet", "consecutive_losses"}
           /\ kind = "AntiMartingale" => changed \subseteq {"current_bet", "consecutive_wins"}
           /\ kind = "PatternBased" => changed \subseteq {"wait_counter"}
           /\ kind = "SkipLow" => changed \subseteq {"rounds_to_skip"}
           /\ (/\ IsDecide(api.prev)
               /\ api.prev.history = api.last.history
               /\ kind \notin {"PatternBased", "SkipLow"})
              => api.prev.decision = api.last.decision

\* C8 witness: the second of two consecutive decide calls with the same
\* history, on a Martingale strategy whose first decide call changed it.
C8_Witness ==
    /\ IsDecide(api.last) /\ IsDecide(api.prev)
    /\ api.prev.history = api.last.history
    /\ api.strategy.kind = "Martingale"
    /\ api.strategy.total_bets > 0
    /\ api.last.decision.should_bet
    /\ api.strategy.consecutive_losses = 0
    /\ api.strategy.history[Len(api.strategy.history)].won = FALSE

\* C9 (warmup rounds in the history window).  With warmup_rounds = w > 0 the
\* first w rounds of the id-filtered range are never bet on, and the decide
\* call for the j-th post-warmup round receives as history the w + j rounds
\* of the id-filtered range before it, warmup rounds included.
C9_WarmupInHistory ==
    LET w == run.config.warmup_rounds
        range == IdRange(run.rounds, run.config)
    IN  w > 0 =>
           /\ \A k \in 1..Len(run.calls) :
                 IsDecide(run.calls[k]) =>
                    run.calls[k].history = SubSeq(range, 1, w + run.calls[k].idx)
           /\ run.pc # "idle" =>
                 \A k \in 1..Len(run.strategy.history) :
                    \A j \in 1..Min(w, Len(range)) :
                       run.strategy.history[k].round_id # range[j].id

\* C10 (generic single cash-out).  For every bet of a strategy that is not
\* SafetyFirst, won is true exactly when the round's multiplier >= the
\* decision's cashout_target, profit is bet_amount * (cashout_target - 1)
\* when won and -bet_amount otherwise, and the trade record stores that
\* bet_amount, target, won and profit.
C10_GenericResolution ==
    (run.pc # "idle" /\ run.strategy.kind # "SafetyFirst") =>
       \A k \in 1..Len(run.calls) :
          IsResult(run.calls[k]) =>
             LET d == run.calls[k - 1].decision
                 r == run.rounds_to_test[run.calls[k].idx + 1]
                 rec == run.strategy.history[run.calls[k].trades_after]
             IN  /\ run.calls[k].won = (r.multiplier >= d.cashout_target)
                 /\ run.calls[k].profit =
                       IF r.multiplier >= d.cashout_target
                       THEN (d.bet_amount * (d.cashout_target - 100)) \div 100
                       ELSE 0 - d.bet_amount
                 /\ rec.bet_amount = d.bet_amount
                 /\ rec.target = d.cashout_target
                 /\ rec.won = run.calls[k].won
                 /\ rec.profit = run.calls[k].profit
                 /\ rec.round_id = r.id
                 /\ rec.multiplier = r.multiplier

\* C10 witness: a trade log with a bet won on a multiplier equal to its
\* target and a lost bet.
C10_Witness ==
    /\ run.pc = "done"
    /\ run.strategy.kind # "SafetyFirst"
    /\ \E k \in 1..Len(run.strategy.history) :
          LET rec == run.strategy.history[k]
          IN  rec.won /\ rec.multiplier = rec.target /\ rec.profit > 0
    /\ \E k \in 1..Len(run.strategy.history) : ~run.strategy.history[k].won

\* A finished run of scenario rounds: initial_bankroll 100, no id filter, no
\* warmup, FixedTarget(target=2.0, bet_percent=10) with its other parameters
\* at their defaults, and one round with the given multiplier.
ScenarioDone(multiplier) ==
    /\ run.pc = "done"
    /\ run.rounds = MkRounds(<<multiplier>>)
    /\ run.config = BacktestConfig(100, None, None, 0)
    /\ run.constructed = FixedTargetStrategy(200, 10, 1, 100, 50, 100)

\* C11 (scenarios A and B).  With initial_bankroll 100, no warmup and
\* FixedTarget(target=2.0, bet_percent=10) on one round, run_backtest bets
\* 10; on multiplier 2.5 the bet is won with profit 10 and final_bankroll
\* 110, on multiplier 1.5 it is lost with profit -10 and final_bankroll 90.
C11_ScenariosAB ==
    /\ ScenarioDone(250) =>
          /\ Len(run.strategy.history) = 1
          /\ run.strategy.history[1].bet_amount = 10
          /\ run.strategy.history[1].won = TRUE
          /\ run.strategy.history[1].profit = 10
          /\ run.strategy.history[1].bankroll = 110
          /\ The(run.metrics).final_bankroll = 110
    /\ ScenarioDone(150) =>
          /\ Len(run.strategy.history) = 1
          /\ run.strategy.history[1].bet_amount = 10
          /\ run.strategy.history[1].won = FALSE
          /\ run.strategy.history[1].profit = 0 - 10
          /\ run.strategy.history[1].bankroll = 90
          /\ The(run.metrics).final_bankroll = 90

\* C11 witness: scenario A has run to its end.
C11_Witness ==
    /\ ScenarioDone(250)
    /\ run.run_no = 1
    /\ The(run.metrics).rounds_bet = 1

\* The profit of one leg: stake * (target - 1) when the multiplier reaches
\* the leg's target, the stake lost otherwise.
LegProfit(stake, target, multiplier) ==
    IF multiplier >= target THEN (stake * (target - 100)) \div 100
    ELSE 0 - stake

\* The stakes of the two legs of a dual-bet strategy for a total bet.
LegStakes(s, bet_amount) ==
    IF s.kind = "SafetyFirst"
    THEN [safety |-> (bet_amount * s.p.safety_bet_ratio) \div 100,
          profit |-> (bet_amount * (100 - s.p.safety_bet_ratio)) \div 100]
    ELSE [safety |-> bet_amount \div 2, profit |-> bet_amount \div 2]

\* C12 (dual-bet resolution).  For SafetyFirstStrategy and DualBetStrategy
\* alike, run_backtest resolves every bet as the sum of the two legs'
\* profits, each leg judged against its own target, and the bet counts as
\* won when that sum is positive.
C12_DualBetResolution ==
    (run.pc # "idle" /\ run.strategy.kind \in {"SafetyFirst", "DualBet"}) =>
       \A k \in 1..Len(run.calls) :
          IsResult(run.calls[k]) =>
             LET d == run.calls[k].decision
                 r == run.rounds_to_test[run.calls[k].idx + 1]
                 stakes == LegStakes(run.strategy, d.bet_amount)
                 sum == LegProfit(stakes.safety, run.strategy.p.safety_target,
                                  r.multiplier)
                        + LegProfit(stakes.profit, run.strategy.p.profit_target,
                                    r.multiplier)
             IN  /\ run.calls[k].profit = sum
                 /\ run.calls[k].won = (sum > 0)

\* C13 (empty range, no bets).  When the id filter and the warmup leave no
\* rounds, or the strategy never bets, run_backtest returns a report with
\* rounds_bet = 0, final_bankroll = initial_bankroll, total_profit = 0,
\* roi_percent = 0 and rounds_skipped = total_rounds (0 for an empty range),
\* every other statistic 0 and peak_bankroll and lowest_bankroll equal to
\* initial_bankroll.
C13_EmptyReport ==
    (run.pc = "done" /\ run.strategy.history = <<>>) =>
       LET m == The(run.metrics)
           zero == {"rounds_bet", "rounds_won", "rounds_lost", "total_profit",
                    "total_wagered", "roi_percent", "win_rate", "avg_win",
                    "avg_loss", "max_drawdown",
                    "max_drawdown_percent", "max_consecutive_losses",
                    "max_consecutive_wins", "sharpe_ratio", "sortino_ratio",
                    "calmar_ratio", "expectancy"}
       IN  /\ DOMAIN m = zero \cup {"total_rounds", "rounds_skipped",
                                    "initial_bankroll", "final_bankroll",
                                    "peak_bankroll", "lowest_bankroll",
                                    "profit_factor"}
           /\ \A k \in zero : m[k] = 0
           /\ m.profit_factor = Number(0)
           /\ m.total_rounds = Len(run.rounds_to_test)
           /\ m.rounds_skipped = m.total_rounds
           /\ m.initial_bankroll = run.config.initial_bankroll
           /\ m.final_bankroll = run.config.initial_bankroll
           /\ m.peak_bankroll = run.config.initial_bankroll
           /\ m.lowest_bankroll = run.config.initial_bankroll
           /\ run.strategy.bankroll = run.config.initial_bankroll

\* C13 witness: a run over two or more rounds in which the strategy was
\* asked at every round and never bet.
C13_Witness ==
    /\ run.pc = "done"
    /\ run.strategy.history = <<>>
    /\ Len(run.rounds_to_test) >= 2
    /\ Len(run.calls) = Len(run.rounds_to_test)

\* The place of a parameter combination in the enumeration of the
\* cartesian product.
EnumIndex(j, params) ==
    CHOOSE k \in 1..Len(j.combinations) :
        ZipParams(j.param_names, j.combinations[k]) = params

\* The value of the named metric in a result, 0 when the report has no
\* such field.
MetricOf(j, item) == get_metric(item, j.metric)

IsPlusInf(x) == x.den = 0 /\ x.num > 0

IsMinusInf(x) == x.den = 0 /\ x.num < 0

IsFinite(x) == x.den > 0

\* C14 (grid-search ranking).  The list grid_search returns is in
\* descending order of the named metric, +infinity before every finite
\* value and -infinity after every finite value, and results whose metric
\* values are equal keep the order in which the cartesian product
\* enumerated their parameter combinations.
C14_GridRanking ==
    (job.op = "grid_search" /\ job.pc = "done") =>
       \A a, b \in 1..Len(job.results) :
          a < b =>
             LET x == MetricOf(job, job.results[a])
                 y == MetricOf(job, job.results[b])
             IN  /\ ~IsPlusInf(y) \/ IsPlusInf(x)
                 /\ ~IsMinusInf(x) \/ IsMinusInf(y)
                 /\ (IsFinite(x) /\ IsFinite(y)) =>
                        x.num * y.den >= y.num * x.den
                 /\ (\/ IsPlusInf(x) /\ IsPlusInf(y)
                     \/ IsMinusInf(x) /\ IsMinusInf(y)
                     \/ IsFinite(x) /\ IsFinite(y)
                        /\ x.num * y.den = y.num * x.den)
                    => EnumIndex(job, job.results[a].params)
                          < EnumIndex(job, job.results[b].params)

\* C14 witness (scenario C): the 2x1 grid has been searched by
\* roi_percent, both results have the same roi_percent and come back in
\* enumeration order.
C14_Witness ==
    /\ job.op = "grid_search" /\ job.pc = "done"
    /\ job.metric = "roi_percent"
    /\ Len(job.combinations) = 2
    /\ Len(job.results) = 2
    /\ job.results[1].metrics.roi_percent = job.results[2].metrics.roi_percent
    /\ job.results[1].metrics.rounds_bet > 0
    /\ job.results[1].params.target = 200
    /\ job.results[2].params.target = 250

\* C15 (grid-search failure recovery).  A parameter combination whose
\* strategy construction or backtest raises is skipped and the sweep goes
\* on: every combination is tried, and the list returned holds exactly the
\* combinations that did not fail, each once, in ranked order.
C15_GridRecovery ==
    (job.op = "grid_search" /\ job.pc = "done") =>
       LET ok == {k \in 1..Len(job.combinations) :
                     ~Combo_raises(job, ZipParams(job.param_names,
                                                  job.combinations[k]))}
       IN  /\ Len(job.outcomes) = Len(job.combinations)
           /\ \A k \in 1..Len(job.combinations) :
                 job.outcomes[k] = IF k \in ok THEN "kept" ELSE "failed"
           /\ Len(job.results) = Cardinality(ok)
           /\ {EnumIndex(job, job.results[a].params) :
                    a \in 1..Len(job.results)} = ok
           /\ \A a, b \in 1..Len(job.results) :
                 a < b => ~RatioLess(MetricOf(job, job.results[a]),
                                     MetricOf(job, job.results[b]))

\* C15 witness: a sweep has returned in which a combination failed, a
\* combination enumerated after it was kept, and the kept ones differ in
\* the metric.
C15_Witness ==
    /\ job.op = "grid_search" /\ job.pc = "done"
    /\ \E k \in 1..Len(job.outcomes) :
          /\ job.outcomes[k] = "failed"
          /\ \E n \in (k + 1)..Len(job.outcomes) : job.outcomes[n] = "kept"
    /\ Len(job.results) >= 2
    /\ RatioLess(MetricOf(job, job.results[Len(job.results)]),
                 MetricOf(job, job.results[1]))

\* The report a strategy of the list gets from a single pass of its own.
OwnReport(j, k) ==
    The(run_backtest(j.rounds, j.config, j.strategies[k]).metrics)

\* C16 (comparison).  run_comparison returns one report per strategy of
\* the list: for k strategies the result holds k reports, and the report
\* under a strategy's name is the report of that strategy's own pass, also
\* when several strategies of the list share a name.
C16_OneReportPerStrategy ==
    (job.op = "run_comparison" /\ job.pc = "done") =>
        /\ Len(job.results) = Len(job.strategies)
        /\ \A k \in 1..Len(job.strategies) :
              /\ name(job.strategies[k]) \in DictKeys(job.results)
              /\ job.results[DictGet(job.results,
                                     name(job.strategies[k]))].value
                    = OwnReport(job, k)

\* C17 (walk-forward test range).  The rounds the pass of window i tests
\* are exactly those at indices k with train_end <= k < window_end, so the
\* ranges tested by different windows are pairwise disjoint, for every
\* n_rounds >= 1 and n_splits >= 1, n_rounds < n_splits included.
C17_TestRange ==
    (job.op = "walk_forward_test" /\ Len(job.rounds) >= 1) =>
        /\ \A w \in 1..Len(job.windows) :
              job.windows[w].tested =
                 {k \in 0..(Len(job.rounds) - 1) :
                     /\ TrainEnd(Len(job.rounds), job.n_splits,
                                 job.train_ratio, w - 1) <= k
                     /\ k < WindowEnd(Len(job.rounds), job.n_splits, w - 1)}
        /\ \A v, w \in 1..Len(job.windows) :
              v # w => job.windows[v].tested \cap job.windows[w].tested = {}

\* C18 (walk-forward result).  For n_splits >= 1, train_ratio in [0, 1]
\* and a non-empty round sequence walk_forward_test does not raise and
\* returns n_splits reports in window order, the report of a window with
\* an empty test range being the zero-trade report.
C18_OneReportPerWindow ==
    (job.op = "walk_forward_test" /\ Len(job.rounds) >= 1) =>
        /\ job.pc # "raised"
        /\ job.pc = "done" => Len(job.results) = job.n_splits
        /\ \A w \in 1..Len(job.results) :
              job.windows[w].tested = {} =>
                 job.results[w]
                   = calculate_metrics_empty(job.config.initial_bankroll, 0)

\* C19 (Monte-Carlo reproducibility).  Two invocations of
\* monte_carlo_simulation with the same strategy, config, n_simulations
\* and sample_size return the same statistics.
C19_Reproducible ==
    (job.op = "monte_carlo_simulation" /\ job.call_no = 2 /\ job.pc = "done")
    => \A field \in DOMAIN The(job.stats) \ {"n_simulations"} :
           RatioEq(The(job.stats)[field], The(job.first)[field])

\* What runs a and b give when a runs to its end before b starts.
InTurnA ==
    IF job.driver = "monte_carlo_simulation"
    THEN The(DrawLoop(OnObject(Draw(job.a.sampled_rounds), job.start),
                      job.config).d.result)
    ELSE LET f == RunLoop(Frame(job.a.rounds, job.a.config,
                                job.a.constructed))
         IN  [metrics |-> The(f.metrics), history |-> f.strategy.history]

InTurnB ==
    IF job.driver = "monte_carlo_simulation"
    THEN LET after_a == DrawLoop(OnObject(Draw(job.a.sampled_rounds),
                                          job.start), job.config).s
         IN  The(DrawLoop(OnObject(Draw(job.b.sampled_rounds), after_a),
                          job.config).d.result)
    ELSE LET f == RunLoop(Frame(job.b.rounds, job.b.config,
                                job.b.constructed))
         IN  [metrics |-> The(f.metrics), history |-> f.strategy.history]

Outcome(r) ==
    IF job.driver = "monte_carlo_simulation" THEN The(r.result)
    ELSE [metrics |-> The(r.metrics), history |-> r.strategy.history]

\* C20 (no shared mutable state between runs).  Whatever the order in
\* which the steps of two independent runs of a driver are taken, each
\* run ends with the trade log and the figures it has when the runs are
\* made one after the other.
C20_RunsIndependent ==
    (job.op = "two_runs" /\ job.a.pc = "done" /\ job.b.pc = "done") =>
        /\ Outcome(job.a) = InTurnA
        /\ Outcome(job.b) = InTurnB

\* Loss and gain since the start of the run, in percent of the initial
\* bankroll, at a decide call of the run.
LossAt(f, call) ==
    ((f.config.initial_bankroll - call.bankroll_before) * 100)
        \div f.config.initial_bankroll

GainAt(f, call) ==
    ((call.bankroll_before - f.config.initial_bankroll) * 100)
        \div f.config.initial_bankroll

\* The take-profit threshold of a strategy: its take_profit_percent, and
\* for a variant whose constructor takes no such parameter the default
\* 100.0 that the constructors taking it give it.
TakeProfitOf(s) == Get(s.p, "take_profit_percent", 100)

ClaimedKinds ==
    {"FixedTarget", "Martingale", "AntiMartingale", "PatternBased",
     "AdaptiveTarget", "HybridML", "SafetyFirst", "SkipLow"}

\* C21 (shared stop-loss / take-profit guard).  Every strategy variant
\* refuses to bet whenever the loss since the start of the run is at least
\* stop_loss_percent of the initial bankroll, and whenever the gain is at
\* least take_profit_percent of the initial bankroll.
C21_SharedGuard ==
    (run.pc # "idle" /\ run.strategy.kind \in ClaimedKinds) =>
       \A k \in 1..Len(run.calls) :
          IsDecide(run.calls[k]) =>
             /\ LossAt(run, run.calls[k]) >= run.strategy.p.stop_loss_percent
                   => ~run.calls[k].decision.should_bet
             /\ GainAt(run, run.calls[k]) >= TakeProfitOf(run.strategy)
                   => ~run.calls[k].decision.should_bet

\* The prediction stored under the id of the last round of a history, the
\* empty map when there is none.
LastPrediction(s, history) ==
    Get(s.p.ml_predictions, history[Len(history)].id, <<>>)

Tiers ==
    {<<"prob_gt_10x", 30, 1000>>, <<"prob_gt_5x", 35, 500>>,
     <<"prob_gt_3x", 40, 300>>, <<"prob_gt_2x", 50, 200>>}

Qualifying(preds) ==
    {tier \in Tiers : tier[1] \in DOMAIN preds /\ preds[tier[1]] > tier[2]}

\* C23 (target tier).  When HybridML bets with use_adaptive_target, the
\* cashout target is the highest of the tiers 10x, 5x, 3x, 2x whose
\* probability is strictly above its cutoff (0.3, 0.35, 0.4, 0.5), or
\* base_target when no tier qualifies; without use_adaptive_target it is
\* base_target.
C23_TargetTier ==
    (run.pc # "idle" /\ run.strategy.kind = "HybridML") =>
       \A k \in 1..Len(run.calls) :
          (IsDecide(run.calls[k]) /\ run.calls[k].decision.should_bet) =>
             LET s == run.strategy
                 q == Qualifying(LastPrediction(s, run.calls[k].history))
                 target == run.calls[k].decision.cashout_target
             IN  IF s.p.use_adaptive_target /\ q # {}
                 THEN \E tier \in q :
                         /\ target = tier[3]
                         /\ \A other \in q : other[3] <= tier[3]
                 ELSE target = s.p.base_target

\* C23 witness: a bet at the 5x tier, made while the 3x and 2x tiers
\* qualify too and the 10x probability sits exactly at its cutoff.
C23_Witness ==
    /\ run.pc # "idle" /\ run.strategy.kind = "HybridML"
    /\ run.strategy.p.use_adaptive_target
    /\ \E k \in 1..Len(run.calls) :
          /\ IsDecide(run.calls[k])
          /\ run.calls[k].decision.should_bet
          /\ run.calls[k].decision.cashout_target = 500
          /\ LET preds == LastPrediction(run.strategy, run.calls[k].history)
             IN  /\ preds.prob_gt_10x = 30
                 /\ preds.prob_gt_3x > 40
                 /\ preds.prob_gt_2x > 50

\* The stake FixedTarget computes from a bankroll: the percentage of the
\* bankroll, raised to min_bet or lowered to max_bet.
ClampedStake(s, bankroll) ==
    LET raw == Times(bankroll, s.p.bet_percent)
    IN  IF raw < s.p.min_bet THEN s.p.min_bet
        ELSE IF raw > s.p.max_bet THEN s.p.max_bet
        ELSE raw

\* C24 (FixedTarget stake).  With min_bet <= max_bet, every bet of
\* FixedTarget is bankroll * bet_percent / 100 clamped into
\* [min_bet, max_bet], at the constant target, and is not above the
\* bankroll; when the clamped amount is above the bankroll no bet is made.
C24_FixedStake ==
    (run.pc # "idle" /\ run.strategy.kind = "FixedTarget"
       /\ run.strategy.p.min_bet <= run.strategy.p.max_bet) =>
       \A k \in 1..Len(run.calls) :
          IsDecide(run.calls[k]) =>
             LET s == run.strategy
                 d == run.calls[k].decision
                 bankroll == run.calls[k].bankroll_before
                 stake == ClampedStake(s, bankroll)
             IN  /\ d.should_bet =>
                       /\ d.bet_amount = stake
                       /\ d.bet_amount >= s.p.min_bet
                       /\ d.bet_amount <= s.p.max_bet
                       /\ d.bet_amount <= bankroll
                       /\ d.cashout_target = s.p.target
                 /\ stake > bankroll => ~d.should_bet

\* C24 witness: a run in which one bet was raised to min_bet and a later
\* decision, short of the stop loss, made no bet because min_bet was above
\* the bankroll.
C24_Witness ==
    /\ run.pc # "idle" /\ run.strategy.kind = "FixedTarget"
    /\ run.strategy.p.min_bet <= run.strategy.p.max_bet
    /\ \E j, k \in 1..Len(run.calls) :
          /\ j < k
          /\ IsDecide(run.calls[j]) /\ IsDecide(run.calls[k])
          /\ run.calls[j].decision.should_bet
          /\ run.calls[j].decision.bet_amount = run.strategy.p.min_bet
          /\ Times(run.calls[j].bankroll_before, run.strategy.p.bet_percent)
                < run.strategy.p.min_bet
          /\ ~run.calls[k].decision.should_bet
          /\ LossAt(run, run.calls[k]) < run.strategy.p.stop_loss_percent
          /\ GainAt(run, run.calls[k]) < run.strategy.p.take_profit_percent
          /\ ClampedStake(run.strategy, run.calls[k].bankroll_before)
                > run.calls[k].bankroll_before

\* The bets of a run in the order they were decided, and their results.
BetsOf(f) == SelectSeq(f.calls, LAMBDA call : IsDecide(call) /\ call.decision.should_bet)

ResultsOf(f) == SelectSeq(f.calls, IsResult)

\* The length of the loss streak after the first n results: a won bet ends
\* it, and a streak that has reached cap starts again from nothing.
RECURSIVE LossStreak(_, _, _)
LossStreak(results, n, cap) ==
    IF n = 0 THEN 0
    ELSE IF results[n].won THEN 0
    ELSE LET before == LossStreak(results, n - 1, cap)
         IN  (IF before >= cap THEN 0 ELSE before) + 1

\* amount * multiplier^n, the multiplier in hundredths.
RECURSIVE Grown(_, _, _)
Grown(amount, multiplier, n) ==
    IF n = 0 THEN amount ELSE Grown(Times(amount, multiplier), multiplier, n - 1)

\* C25 (Martingale progression).  In a run of Martingale the bet after a
\* won bet is base_bet; the bet after a lost bet is the lost bet times
\* multiplier, unless the loss streak has reached max_consecutive_losses
\* or that amount is above the bankroll, and then it is base_bet.  Every
\* bet is at most the bankroll and at most
\* base_bet * multiplier^(max_consecutive_losses - 1).
C25_Progression ==
    (run.pc # "idle" /\ run.strategy.kind = "Martingale") =>
       LET p == run.strategy.p
           bets == BetsOf(run)
           results == ResultsOf(run)
       IN  \A k \in 1..Len(bets) :
              LET bet == bets[k].decision.bet_amount
                  raised == Times(bets[k - 1].decision.bet_amount, p.multiplier)
              IN  /\ k = 1 => bet = p.base_bet
                  /\ (k > 1 /\ results[k - 1].won) => bet = p.base_bet
                  /\ (k > 1 /\ ~results[k - 1].won) =>
                        bet = IF \/ LossStreak(results, k - 1, p.max_consecutive_losses)
                                      >= p.max_consecutive_losses
                                 \/ raised > bets[k].bankroll_before
                              THEN p.base_bet
                              ELSE raised
                  /\ bet <= bets[k].bankroll_before
                  /\ bet <= Grown(p.base_bet, p.multiplier, p.max_consecutive_losses - 1)

\* C25 witness: a run in which a bet went back to base_bet because the
\* loss streak had reached max_consecutive_losses (two or more) although
\* the raised amount was within the bankroll, and an earlier bet was raised.
C25_Witness ==
    /\ run.pc # "idle" /\ run.strategy.kind = "Martingale"
    /\ run.strategy.p.max_consecutive_losses >= 2
    /\ LET p == run.strategy.p
           bets == BetsOf(run)
           results == ResultsOf(run)
       IN  \E k \in 3..Len(bets) :
              /\ ~results[k - 1].won
              /\ LossStreak(results, k - 1, p.max_consecutive_losses)
                    >= p.max_consecutive_losses
              /\ Times(bets[k - 1].decision.bet_amount, p.multiplier)
                    <= bets[k].bankroll_before
              /\ bets[k].decision.bet_amount = p.base_bet
              /\ bets[k - 1].decision.bet_amount = Times(p.base_bet, p.multiplier)

\* The last n rounds of a history are all below the threshold.
LowTail(history, n, threshold) ==
    /\ Len(history) >= n
    /\ \A j \in (Len(history) - n + 1)..Len(history) :
          history[j].multiplier < threshold

\* A PatternBased bet was preceded by a streak and by no high round.
BetsAfterStreak ==
    (run.pc # "idle" /\ run.strategy.kind = "PatternBased") =>
       \A k \in 1..Len(run.calls) :
          (IsDecide(run.calls[k]) /\ run.calls[k].decision.should_bet) =>
             LET h == run.calls[k].history
                 p == run.strategy.p
             IN  /\ LowTail(h, p.min_streak_to_bet, p.streak_threshold)
                 /\ h # <<>> => h[Len(h)].multiplier < p.high_threshold

\* A decide call of PatternBased taken with a positive cooldown counter
\* makes no bet.
NoBetInCooldown ==
    (/\ run.pc = "decide"
     /\ run.strategy.kind = "PatternBased"
     /\ run.strategy.wait_counter > 0
     /\ run'.pc # "raised")
       => ~The(run'.decision).should_bet

\* C26 (pattern entry condition).  PatternBased bets on a round only if
\* the min_streak_to_bet rounds just before it all have a multiplier below
\* streak_threshold; it never bets on a round whose preceding round has a
\* multiplier >= high_threshold, nor in a decide call taken while its
\* cooldown counter is positive.
C26_PatternEntry == []BetsAfterStreak /\ [][NoBetInCooldown]_vars

\* C26 witness: a decide call refused for the cooldown alone: the stop
\* loss is not reached, the streak is long enough and the preceding round
\* is not high.
C26_Witness ==
    /\ run.pc # "idle" /\ run.strategy.kind = "PatternBased"
    /\ \E k \in 1..Len(run.calls) :
          /\ IsDecide(run.calls[k])
          /\ ~run.calls[k].decision.should_bet
          /\ LossAt(run, run.calls[k]) < run.strategy.p.stop_loss_percent
          /\ run.calls[k].history # <<>>
          /\ LowTail(run.calls[k].history, run.strategy.p.min_streak_to_bet,
                     run.strategy.p.streak_threshold)
          /\ run.calls[k].history[Len(run.calls[k].history)].multiplier
                < run.strategy.p.high_threshold

\* The number of won bets at the end of a sequence of results.
RECURSIVE WinStreak(_, _)
WinStreak(results, n) ==
    IF n = 0 \/ ~results[n].won THEN 0 ELSE 1 + WinStreak(results, n - 1)

\* With min_target <= start_target the target stays between the two.
TargetInBounds ==
    (run.strategy.kind = "AdaptiveTarget"
       /\ run.strategy.p.min_target <= run.strategy.p.start_target) =>
       /\ run.strategy.p.min_target <= run.strategy.current_target
       /\ run.strategy.current_target <= run.strategy.p.start_target

\* How a step of a run changes the target of AdaptiveTarget.
TargetRule ==
    run.strategy.kind = "AdaptiveTarget" =>
       LET p == run.strategy.p
           before == run.strategy.current_target
           after == run'.strategy.current_target
           results == ResultsOf(run')
       IN  /\ run.pc = "idle" => after = p.start_target
           /\ run.pc = "bet" =>
                 after = IF ~results[Len(results)].won
                         THEN Max(p.min_target, before - p.target_decrement)
                         ELSE IF WinStreak(results, Len(results)) >= p.reset_after_wins
                         THEN p.start_target
                         ELSE before
           /\ run.pc \in {"decide", "check"} => after = before

\* C27 (adaptive target bounds).  AdaptiveTarget's current_target is
\* start_target after reset, becomes max(min_target, current_target -
\* target_decrement) after each lost bet, returns to start_target after a
\* won bet that brings consecutive_wins to reset_after_wins or more, and
\* is otherwise unchanged; with min_target <= start_target it satisfies
\* min_target <= current_target <= start_target in every reachable state.
C27_AdaptiveTarget == []TargetInBounds /\ [][TargetRule]_vars

\* C27 witness: a second win in a row has just brought the target back to
\* start_target from a target that a loss had lowered to the floor.
C27_Witness ==
    /\ run.pc = "check" /\ run.strategy.kind = "AdaptiveTarget"
    /\ run.strategy.p.min_target < run.strategy.p.start_target
    /\ run.strategy.p.reset_after_wins = 2
    /\ run.strategy.current_target = run.strategy.p.start_target
    /\ LET results == ResultsOf(run)
       IN  /\ Len(results) >= 3
           /\ results[Len(results)].won
           /\ results[Len(results)].decision.cashout_target
                 = run.strategy.p.min_target
           /\ results[Len(results) - 1].won
           /\ ~results[Len(results) - 2].won
           /\ results[Len(results) - 2].decision.cashout_target
                 - run.strategy.p.target_decrement < run.strategy.p.min_target

\* The decide calls of a run in order.
DecisionsOf(f) == SelectSeq(f.calls, IsDecide)

\* The last round of the history of a decide call is below the threshold.
LowSeen(call, threshold) ==
    /\ call.history # <<>>
    /\ call.history[Len(call.history)].multiplier < threshold

\* The a-th decide call of a SkipLow run sees the signal: the strategy was
\* betting (the decision before was a bet), the stop loss is not reached
\* and the newest round is low.
SeesSignal(f, a) ==
    LET calls == DecisionsOf(f)
    IN  /\ a > 1
        /\ calls[a - 1].decision.should_bet
        /\ LossAt(f, calls[a]) < f.strategy.p.stop_loss_percent
        /\ LowSeen(calls[a], f.strategy.p.skip_after_below)

\* The bet decided by a decide call was lost.
LostBet(f, call) ==
    /\ call.decision.should_bet
    /\ \E k \in 1..Len(f.calls) :
          IsResult(f.calls[k]) /\ f.calls[k].idx = call.idx /\ ~f.calls[k].won

\* The rounds declined from the a-th decide call on are exactly n: the
\* calls a .. a+n-1 make no bet, and call a+n bets unless it is stopped by
\* something else (a new signal, the stop loss, the bankroll).
DeclinesExactly(f, a, n, free(_)) ==
    LET calls == DecisionsOf(f)
    IN  /\ \A j \in a..(a + n - 1) :
              j <= Len(calls) => ~calls[j].decision.should_bet
        /\ (a + n <= Len(calls) /\ free(calls[a + n]))
              => calls[a + n].decision.should_bet

\* C28 (skip count).  After SkipLow sees a low-outcome signal it declines
\* to bet on exactly skip_rounds rounds before it can bet again; after a
\* lost bet SkipAfterLoss declines exactly skip_rounds rounds.
C28_SkipCount ==
    run.pc # "idle" =>
       LET p == run.strategy.p
           calls == DecisionsOf(run)
       IN  /\ run.strategy.kind = "SkipLow" =>
                 \A a \in 1..Len(calls) :
                    SeesSignal(run, a) =>
                       DeclinesExactly(run, a, p.skip_rounds,
                                       LAMBDA call : ~LowSeen(call, p.skip_after_below))
           /\ run.strategy.kind = "SkipAfterLoss" =>
                 \A b \in 1..Len(calls) :
                    LostBet(run, calls[b]) =>
                       DeclinesExactly(run, b + 1, p.skip_rounds,
                                       LAMBDA call :
                                          /\ LossAt(run, call) < p.stop_loss_percent
                                          /\ Min(p.bet_amount, call.bankroll_before)
                                                >= MIN_BET)

\* calculate_metrics has returned the report of a trade log that is not
\* empty.
Reported == job.op = "calculate_metrics" /\ job.pc = "returned" /\ job.history # <<>>

\* The sum of the profits of the trades whose profit has the given sign
\* (1 or -1), as a positive amount.
RECURSIVE SignedTotal(_, _, _)
SignedTotal(history, n, sign) ==
    IF n = 0 THEN 0
    ELSE (IF history[n].profit * sign > 0 THEN history[n].profit * sign ELSE 0)
         + SignedTotal(history, n - 1, sign)

\* C29 (profit factor).  For a trade log that is not empty profit_factor
\* is +infinity when gross_loss = 0 and gross_profit > 0, is 0 when
\* gross_profit = 0, with or without losses, and is gross_profit /
\* gross_loss otherwise; gross_profit sums the profits above 0 and
\* gross_loss is the absolute sum of the profits below 0.
C29_ProfitFactor ==
    Reported =>
       LET gross_profit == SignedTotal(job.history, Len(job.history), 1)
           gross_loss == SignedTotal(job.history, Len(job.history), 0 - 1)
           profit_factor == The(job.report).profit_factor
       IN  IF gross_loss = 0 /\ gross_profit > 0
           THEN profit_factor = Infinity
           ELSE IF gross_profit = 0
           THEN profit_factor.num = 0 /\ profit_factor.den > 0
           ELSE /\ profit_factor.den > 0
                /\ RatioEq(profit_factor, Ratio(gross_profit, gross_loss))

\* C29 witness: the report of a log of two or more trades with a trade of
\* profit 0 and no trade of positive or negative profit; its factor is 0.
C29_Witness ==
    /\ Reported
    /\ Len(job.history) >= 2
    /\ \A k \in 1..Len(job.history) : job.history[k].profit = 0
    /\ The(job.report).profit_factor = Number(0)

\* The equity curve of the call, and the largest of its first k points.
Curve == <<job.initial_bankroll>> \o [k \in 1..Len(job.history) |-> job.history[k].bankroll]

PeakAt(k) == SeqMax(SubSeq(Curve, 1, k))

DrawdownAt(k) == PeakAt(k) - Curve[k]

\* C30 (drawdown).  The equity curve is initial_bankroll followed by the
\* bankroll after each trade; the running peak of the drawdown loop is the
\* largest equity so far and never decreases; max_drawdown is the largest
\* of (running peak - equity) over the curve and is >= 0; and
\* max_drawdown_percent is 100 * that drawdown / the peak in force at the
\* first point where it occurred.
C30_Drawdown ==
    Reported =>
       LET report == The(job.report)
           trace == DrawdownTrace(Curve, DrawdownStart(Curve))
       IN  /\ Curve = EquityCurve(job.history, job.initial_bankroll)
           /\ \A k \in 1..Len(Curve) : trace[k].peak = PeakAt(k)
           /\ \A k \in 2..Len(Curve) : trace[k].peak >= trace[k - 1].peak
           /\ report.max_drawdown >= 0
           /\ \A k \in 1..Len(Curve) : DrawdownAt(k) <= report.max_drawdown
           /\ \E k \in 1..Len(Curve) :
                 /\ DrawdownAt(k) = report.max_drawdown
                 /\ \A j \in 1..(k - 1) : DrawdownAt(j) < report.max_drawdown
                 /\ report.max_drawdown_percent.den > 0
                 /\ RatioEq(report.max_drawdown_percent,
                            Ratio(100 * DrawdownAt(k), PeakAt(k)))

\* C30 witness: the report of a curve on which the largest drawdown occurs
\* twice, the second time under a higher peak.
C30_Witness ==
    /\ Reported
    /\ \E j, k \in 1..Len(Curve) :
          /\ j < k
          /\ DrawdownAt(j) = The(job.report).max_drawdown
          /\ DrawdownAt(k) = The(job.report).max_drawdown
          /\ DrawdownAt(j) > 0
          /\ PeakAt(j) < PeakAt(k)

\* The number of the first n trade records whose won flag is set.
RECURSIVE WonAmong(_, _)
WonAmong(history, n) ==
    IF n = 0 THEN 0
    ELSE (IF history[n].won THEN 1 ELSE 0) + WonAmong(history, n - 1)

\* C31 (metric counts).  In the report run_backtest returns, rounds_bet is
\* the number of trade records, rounds_won the number of them with won
\* set, rounds_won + rounds_lost = rounds_bet, rounds_bet + rounds_skipped
\* = total_rounds, 0 <= rounds_bet <= total_rounds, and total_rounds is the
\* number of post-warmup rounds of the id range, the rounds not reached
\* after a ruin included.
C31_MetricCounts ==
    run.pc = "done" =>
       LET report == The(run.metrics)
           history == run.strategy.history
       IN  /\ report.rounds_bet = Len(history)
           /\ report.rounds_won = WonAmong(history, Len(history))
           /\ report.rounds_won + report.rounds_lost = report.rounds_bet
           /\ report.rounds_bet + report.rounds_skipped = report.total_rounds
           /\ 0 <= report.rounds_bet
           /\ report.rounds_bet <= report.total_rounds
           /\ report.total_rounds
                 = Max(0, Len(IdRange(run.rounds, run.config))
                            - run.config.warmup_rounds)

\* C31 witness: the report of a run that a ruin ended before its last
\* round, with rounds left out of the run by the id range or the warmup.
C31_Witness ==
    /\ run.pc = "done"
    /\ run.strategy.bankroll <= 0
    /\ run.i + 1 < Len(run.rounds_to_test)
    /\ Len(run.rounds_to_test) < Len(run.rounds)
    /\ The(run.metrics).rounds_lost >= 1
    /\ The(run.metrics).rounds_skipped >= 1

\* No per-bet return of the log is negative.
NoNegativeReturn(history) ==
    \A k \in 1..Len(history) : history[k].profit * history[k].bet_amount >= 0

\* The sum of the per-bet returns is above 0: none is negative and one is
\* positive.
PositiveMean(history) ==
    /\ NoNegativeReturn(history)
    /\ \E k \in 1..Len(history) : history[k].profit * history[k].bet_amount > 0

\* C32 (Sortino sentinel).  For every trade log that is not empty and has
\* no negative per-bet return, logs of a single trade included,
\* sortino_ratio is +infinity when the mean return is above 0 and 0
\* otherwise.
C32_SortinoSentinel ==
    (Reported /\ NoNegativeReturn(job.history)) =>
       The(job.report).sortino_ratio
          = IF PositiveMean(job.history) THEN Infinity ELSE Number(0)

\* The quotient num / den, den > 0, in lowest terms.
RECURSIVE Gcd(_, _)
Gcd(a, b) == IF b = 0 THEN a ELSE Gcd(b, a % b)

Lowest(num, den) ==
    LET g == Gcd(IF num < 0 THEN 0 - num ELSE num, den)
    IN  Ratio(num \div g, den \div g)

\* The report's roi_percent (held in hundredths of a percent) over 100,
\* divided by scale times the report's max_drawdown_percent; the drawdown
\* is positive.
RoiOverDrawdown(report, scale) ==
    Lowest(report.roi_percent * report.max_drawdown_percent.den,
           scale * report.max_drawdown_percent.num)

\* C33 as stated (Calmar ratio).  calmar_ratio of a report is
\* (roi_percent / 100) divided by the report's max_drawdown_percent, and
\* 0 when the maximum drawdown is 0.
C33_CalmarByPercentField ==
    Reported =>
       LET report == The(job.report)
       IN  IF report.max_drawdown = 0
           THEN report.calmar_ratio = Number(0)
           ELSE Lowest(report.calmar_ratio.num, report.calmar_ratio.den)
                   = RoiOverDrawdown(report, 10000)

\* C33 amended (Calmar ratio).  calmar_ratio of a report is
\* (roi_percent / 100) divided by (max_drawdown_percent / 100), the
\* drawdown as a fraction of the peak, and 0 when the maximum drawdown
\* is 0.
C33_Calmar ==
    Reported =>
       LET report == The(job.report)
       IN  IF report.max_drawdown = 0
           THEN report.calmar_ratio = Number(0)
           ELSE Lowest(report.calmar_ratio.num, report.calmar_ratio.den)
                   = RoiOverDrawdown(report, 100)

\* C33 witness: the report of a log that ends with a gain after a
\* drawdown: its calmar_ratio is positive.
C33_Witness ==
    /\ Reported
    /\ The(job.report).max_drawdown > 0
    /\ The(job.report).total_profit > 0
    /\ The(job.report).calmar_ratio.num > 0

\* The iterations of a search that ran without error and produced a
\* finite value.
QualifyingTrials(trials) ==
    {k \in 1..Len(trials) : ~trials[k].raised /\ InfRank(trials[k].value) = 0}

\* C34 (random-search best so far).  optimize_strategy runs all its
\* iterations and returns the parameters and the report of the first
\* iteration whose value is the largest among the iterations that ran
\* without error and produced a finite value; iterations that raise or
\* produce an infinite value are never the result; when no iteration
\* qualifies the result is (None, None).
C34_BestSoFar ==
    (job.op = "optimize_strategy" /\ job.pc = "done") =>
       LET trials == job.trials
           q == QualifyingTrials(trials)
           result == The(job.result)
       IN  /\ Len(trials) = job.n_iterations
           /\ q = {} => result = <<None, None>>
           /\ q # {} =>
                 \E k \in q :
                    /\ \A other \in q : ~RatioLess(trials[k].value, trials[other].value)
                    /\ \A other \in q :
                          other < k => RatioLess(trials[other].value, trials[k].value)
                    /\ result = <<Some(trials[k].params), Some(trials[k].metrics)>>

\* C34 witness: a finished search in which one iteration raised, one
\* produced +infinity and the result comes from another iteration.
C34_Witness ==
    /\ job.op = "optimize_strategy" /\ job.pc = "done"
    /\ \E a, b, c \in 1..Len(job.trials) :
          /\ job.trials[a].raised
          /\ ~job.trials[b].raised /\ job.trials[b].value = Infinity
          /\ ~job.trials[c].raised
          /\ The(job.result) = <<Some(job.trials[c].params), Some(job.trials[c].metrics)>>

\* The run of an analysis for values[k]: base_params as given with only
\* param_to_vary set to the value.
RunFor(j, k) ==
    LET params == [n \in DOMAIN j.given \cup {j.param_to_vary} |->
                      IF n = j.param_to_vary THEN j.values[k] ELSE j.given[n]]
    IN  IF ~(DOMAIN params \subseteq ClassParams(j.strategy_class))
        THEN [failed |-> TRUE]
        ELSE LET f == run_backtest(j.rounds, j.config,
                                   New(j.strategy_class, params))
             IN  IF f.pc = "raised" THEN [failed |-> TRUE]
                 ELSE [failed |-> FALSE, metrics |-> The(f.metrics)]

\* C35 (sensitivity analysis preserves input order).  For each tracked
\* metric the returned list has one entry per element of values; the k-th
\* entry is the metric of the run in which only param_to_vary was set to
\* values[k], or 0 when that construction or run fails; the values are
\* returned as given and base_params is not modified.
C35_InputOrder ==
    (job.op = "sensitivity_analysis" /\ job.pc = "done") =>
       LET results == The(job.result)
       IN  /\ job.base_params = job.given
           /\ results[job.param_to_vary] = job.values
           /\ \A m \in 1..Len(job.metrics_to_track) :
                 LET metric == job.metrics_to_track[m]
                 IN  /\ Len(results[metric]) = Len(job.values)
                     /\ \A k \in 1..Len(job.values) :
                           LET r == RunFor(job, k)
                           IN  results[metric][k] =
                                  IF r.failed THEN 0
                                  ELSE IF metric \in DOMAIN r.metrics
                                       THEN r.metrics[metric]
                                       ELSE 0

\* C35 witness: a finished analysis of three values whose second run failed
\* and whose first and third runs gave a roi_percent other than 0.
C35_Witness ==
    /\ job.op = "sensitivity_analysis" /\ job.pc = "done"
    /\ Len(job.values) = 3
    /\ RunFor(job, 2).failed
    /\ ~RunFor(job, 1).failed /\ ~RunFor(job, 3).failed
    /\ "roi_percent" \in DOMAIN The(job.result)
    /\ LET roi == The(job.result)["roi_percent"]
       IN  roi[1] # 0 /\ roi[2] = 0 /\ roi[3] # 0

\* The reasons of a decide that declined on its stop-loss or take-profit
\* threshold.
StopReasons == {"Stop loss triggered", "Take profit triggered"}

\* The calls of the current run at which decide declined on a threshold.
StoppedAt(f) ==
    {a \in 1..Len(f.calls) :
        f.calls[a].op = "decide" /\ f.calls[a].decision.reason \in StopReasons}

InRun(f) == f.pc \in {"decide", "bet", "check", "done"}

\* Every call after a decline on a threshold is a decide that declines and
\* leaves bankroll and trade log as they were at the decline.
AbsorbedLog ==
    InRun(run) =>
       \A a \in StoppedAt(run) :
          /\ run.strategy.bankroll = run.calls[a].bankroll_before
          /\ Len(run.strategy.history) = run.calls[a].trades_before
          /\ \A b \in (a + 1)..Len(run.calls) :
                /\ run.calls[b].op = "decide"
                /\ ~run.calls[b].decision.should_bet
                /\ run.calls[b].bankroll_after = run.calls[a].bankroll_before
                /\ run.calls[b].trades_after = run.calls[a].trades_before

\* A step of a run that has declined on a threshold.
AbsorbedStep ==
    (run.pc \in {"decide", "bet", "check"} /\ StoppedAt(run) # {}) =>
       /\ run'.strategy.bankroll = run.strategy.bankroll
       /\ run'.strategy.history = run.strategy.history

\* C36 (stop-loss and take-profit are absorbing).  Within one run, once
\* decide has declined because the stop-loss or take-profit threshold is
\* met, the bankroll never changes again, every later decide of the run
\* declines, and no trade record is appended.
C36_Absorbing == []AbsorbedLog /\ [][AbsorbedStep]_vars

\* C36 witness: a finished run in which decide declined on the stop-loss
\* threshold after a lost bet and was called twice more.
C36_Witness ==
    /\ run.pc = "done"
    /\ \E a \in StoppedAt(run) :
          /\ run.calls[a].decision.reason = "Stop loss triggered"
          /\ run.calls[a].trades_before > 0
          /\ a + 2 <= Len(run.calls)

\* Both loops have come to their end.
BothEnded ==
    /\ job.op = "draw"
    /\ run.pc \in {"done", "raised"}
    /\ job.p.d.pc \in {"done", "raised"}

\* C37 (the Monte-Carlo driver is built from the single-pass primitive).
\* On the same rounds, with initial_bankroll > 0 and warmup 0, the loop of
\* one simulation makes the same calls of decide and on_round_result with
\* the same outcomes as the loop of run_backtest, stops at the same round,
\* and leaves the same trade log and bankroll.
C37_SamePass ==
    BothEnded =>
       /\ job.calls = run.calls
       /\ job.p.d.i = run.i
       /\ (job.p.d.pc = "raised") = (run.pc = "raised")
       /\ job.p.s.history = run.strategy.history
       /\ job.p.s.bankroll = run.strategy.bankroll

\* C37 witness: both loops ended by ruin before the last round of the
\* sample, after more than one round.
C37_Witness ==
    /\ BothEnded
    /\ job.p.d.bankrupt
    /\ run.i + 1 < Len(run.rounds_to_test)
    /\ Len(run.calls) > 2

\* The sum of the profits of the first k trade records.
ProfitUpTo(history, k) == SumOf(SubSeq(history, 1, k), "profit")

\* C38 (bankroll accounting).  In every state of a run of run_backtest
\* after its reset, the strategy's bankroll is config.initial_bankroll plus
\* the sum of the profits of all trade records so far, and each record
\* stores the bankroll right after its trade; the report's final_bankroll is
\* the strategy's bankroll at the end of the run and its total_profit the
\* sum of all recorded profits.
C38_Accounting ==
    InRun(run) =>
       LET history == run.strategy.history
           initial == run.config.initial_bankroll
       IN  /\ run.strategy.bankroll = initial + ProfitUpTo(history, Len(history))
           /\ \A k \in 1..Len(history) :
                 history[k].bankroll = initial + ProfitUpTo(history, k)
           /\ \A c \in 1..Len(run.calls) :
                 run.calls[c].op = "on_round_result" =>
                    /\ run.calls[c].trades_after = run.calls[c].trades_before + 1
                    /\ history[run.calls[c].trades_after].bankroll
                          = run.calls[c].bankroll_after
           /\ run.pc = "done" =>
                 /\ The(run.metrics).final_bankroll = run.strategy.bankroll
                 /\ The(run.metrics).total_profit
                       = ProfitUpTo(history, Len(history))

\* C38 witness: a finished second run on the strategy object of the first,
\* with a won and a lost trade and a final bankroll other than the initial
\* one.
C38_Witness ==
    /\ run.pc = "done"
    /\ run.run_no = 2
    /\ run.reused
    /\ \E a, b \in 1..Len(run.strategy.history) :
          run.strategy.history[a].won /\ ~run.strategy.history[b].won
    /\ run.strategy.bankroll # run.config.initial_bankroll

\* The rounds of the engine inside the id range of the config, without the
\* first warmup_rounds of them.
PostWarmup(f) ==
    LET inside == {k \in 1..Len(f.rounds) :
                      /\ (f.config.start_round # None =>
                             f.rounds[k].id >= The(f.config.start_round))
                      /\ (f.config.end_round # None =>
                             f.rounds[k].id <= The(f.config.end_round))}
    IN  {k \in inside :
            Cardinality({m \in inside : m < k}) >= f.config.warmup_rounds}

\* The positions in the call record of the calls of on_round_result.
ResultCalls(f) == {c \in 1..Len(f.calls) : f.calls[c].op = "on_round_result"}

\* C39 (trade-log ordering).  On rounds with strictly increasing ids the
\* round_ids of the trade log of run_backtest are strictly increasing, so
\* no round has two records; every recorded round_id is the id of a round of
\* the filtered range after the warmup; and the k-th record is the one of
\* the k-th bet resolved.
C39_LogOrder ==
    InRun(run) =>
       LET history == run.strategy.history
       IN  /\ \A a, b \in 1..Len(history) :
                 a < b => history[a].round_id < history[b].round_id
           /\ \A a \in 1..Len(history) :
                 \E k \in PostWarmup(run) :
                    run.rounds[k].id = history[a].round_id
           /\ Cardinality(ResultCalls(run)) = Len(history)
           /\ \A c \in ResultCalls(run) :
                 /\ run.calls[c].trades_after
                       = Cardinality({e \in ResultCalls(run) : e <= c})
                 /\ history[run.calls[c].trades_after].round_id
                       = run.rounds_to_test[run.calls[c].idx + 1].id

\* C39 witness: a finished run with a warmup round and an id range that
\* leaves out the last round, whose log has two records.
C39_Witness ==
    /\ run.pc = "done"
    /\ run.config.warmup_rounds = 1
    /\ run.config.end_round # None
    /\ Len(run.rounds) = 4
    /\ Len(run.strategy.history) = 2

====
